---- MODULE Spec2Model ----
(***************************************************************************)
(* Conversational retrieval-and-answer pipeline of agenciawow/systemrag.   *)
(*                                                                         *)
(* The module holds several specifications over one set of variables:      *)
(*   SpecRerank  the two rerankers as functions of their inputs            *)
(*               (system_rag/search/retrieval/reranker.py);                *)
(*   SpecCore    the conversational instances (ModularConversationalRAG    *)
(*               and RAGSearchAgent) driving the staged pipeline, called   *)
(*               without a user and a session;                             *)
(*   Spec        the same with the agent's session memory (Zep).           *)
(* Texts are TLA+ strings; the string helpers below compute what the       *)
(* Python string operations used by the code compute.  TLC keeps the       *)
(* strings of a state as bytes, so the texts are written in ASCII: an      *)
(* accented letter of the source is written as its base letter.            *)
(***************************************************************************)
EXTENDS Integers, Sequences, FiniteSets, TLC

VARIABLES
    \* ---- SpecRerank: one reranker call
    rr_pc,          \* "input" | "reranked" | "simple"
    rr_in,          \* the arguments of rerank_results
    rr_llm,         \* what the rerank LLM call did
    rr_out,         \* the RerankedResult returned
    \* ---- Spec, SpecCore: one conversational instance
    kind,           \* "modular" (ModularConversationalRAG) | "agent" (RAGSearchAgent)
    pc,             \* position inside ask / the pipeline
    chat_history,   \* self.chat_history
    transformation_cache,  \* QueryTransformer.transformation_cache, insertion order
    image_cache,    \* ImageFetcher.image_cache, insertion order
    max_cache_size, \* max_cache_size of the QueryTransformer and of the ImageFetcher
    request,        \* the API request being served by the instance
    prior,          \* ask calls the instance answered before the first state
    asks,           \* number of ask calls started, those before included
    run,            \* locals of the ask in progress
    calls,          \* external calls made by the ask in progress
    zep             \* the session memory service and its module-level client

vars_rr == <<rr_pc, rr_in, rr_llm, rr_out>>
vars_ask == <<kind, pc, chat_history, transformation_cache, image_cache, max_cache_size,
              request, prior, asks, run, calls, zep>>
vars == <<rr_pc, rr_in, rr_llm, rr_out, kind, pc, chat_history, transformation_cache,
          image_cache, max_cache_size, request, prior, asks, run, calls, zep>>

---------------------------------------------------------------------------
\* Bounds of the model

MaxResults == 3        \* longest list of search results
MaxSelectedBound == 2  \* largest max_selected
MaxIndex == 4          \* largest number the rerank LLM writes
MaxListed == 2         \* most numbers on one line of the rerank LLM
MaxAsks == 1           \* ask calls made on an instance

---------------------------------------------------------------------------
\* Python string and list operations

Min(a, b) == IF a <= b THEN a ELSE b

\* s[:n] for n >= 0, on strings and on lists
Slice(s, n) == SubSeq(s, 1, Min(n, Len(s)))

\* a truncation that keeps the oldest entries: s[:n]
KeepOldest(s, n) == SubSeq(s, 1, Min(n, Len(s)))

\* s[-n:] for n >= 1
LastN(s, n) == IF Len(s) <= n THEN s ELSE SubSeq(s, Len(s) - n + 1, Len(s))

\* p in s
Contains(s, p) ==
    \E v \in {s} : \E i \in 1..(Len(v) - Len(p) + 1) : SubSeq(v, i, i + Len(p) - 1) = p

\* s.startswith(p)
StartsWith(s, p) == Len(s) >= Len(p) /\ SubSeq(s, 1, Len(p)) = p

UpperChars == "ABCDEFGHIJKLMNOPQRSTUVWXYZ"
LowerChars == "abcdefghijklmnopqrstuvwxyz"

\* the lower-case letter of each upper-case letter
LowerMap ==
    [c \in {SubSeq(UpperChars, i, i) : i \in 1..Len(UpperChars)} |->
        LET i == CHOOSE j \in 1..Len(UpperChars) : SubSeq(UpperChars, j, j) = c
        IN  SubSeq(LowerChars, i, i)]

LowerChar(c) == IF c \in DOMAIN LowerMap THEN LowerMap[c] ELSE c

RECURSIVE Lower(_)
\* s.lower(); v is the value of s, computed once for the whole body
Lower(s) ==
    CHOOSE r \in {IF Len(v) = 0 THEN ""
                  ELSE IF Len(v) = 1 THEN LowerChar(v)
                  ELSE LET h == Len(v) \div 2
                       IN  Lower(SubSeq(v, 1, h)) \o Lower(SubSeq(v, h + 1, Len(v)))
                  : v \in {s}} : TRUE

IsSpace(c) == c = " "

RECURSIVE LStrip(_)
LStrip(s) ==
    CHOOSE r \in {IF Len(v) > 0 /\ IsSpace(SubSeq(v, 1, 1))
                  THEN LStrip(SubSeq(v, 2, Len(v))) ELSE v : v \in {s}} : TRUE

RECURSIVE RStrip(_)
RStrip(s) ==
    CHOOSE r \in {IF Len(v) > 0 /\ IsSpace(SubSeq(v, Len(v), Len(v)))
                  THEN RStrip(SubSeq(v, 1, Len(v) - 1)) ELSE v : v \in {s}} : TRUE

\* s.strip()
Strip(s) == RStrip(LStrip(s))

\* len(s.split())
WordCount(s) ==
    LET starts(v) == {i \in 1..Len(v) :
                        /\ ~IsSpace(SubSeq(v, i, i))
                        /\ (i = 1 \/ IsSpace(SubSeq(v, i - 1, i - 1)))}
    IN  Cardinality(UNION {starts(v) : v \in {s}})

RECURSIVE Remove(_, _)
\* s.replace(p, ""); v is the value of s, computed once for the whole body
Remove(s, p) ==
    CHOOSE r \in {IF Len(v) = 0 THEN ""
                  ELSE IF StartsWith(v, p) THEN Remove(SubSeq(v, Len(p) + 1, Len(v)), p)
                  ELSE SubSeq(v, 1, 1) \o Remove(SubSeq(v, 2, Len(v)), p)
                  : v \in {s}} : TRUE

Digits == "0123456789"
DigitMap == [c \in {SubSeq(Digits, i, i) : i \in 1..10} |->
                (CHOOSE i \in 1..10 : SubSeq(Digits, i, i) = c) - 1]
IsDigit(c) == c \in DOMAIN DigitMap
DigitVal(c) == DigitMap[c]

RECURSIVE ScanNumbers(_, _, _, _)
ScanNumbers(s, i, cur, acc) ==
    IF i > Len(s) THEN (IF cur >= 0 THEN Append(acc, cur) ELSE acc)
    ELSE LET c == SubSeq(s, i, i) IN
         IF IsDigit(c)
         THEN ScanNumbers(s, i + 1, (IF cur < 0 THEN 0 ELSE cur) * 10 + DigitVal(c), acc)
         ELSE ScanNumbers(s, i + 1, -1, IF cur >= 0 THEN Append(acc, cur) ELSE acc)

\* [int(n) for n in re.findall(r'\d+', s)]
FindNumbers(s) == CHOOSE r \in {ScanNumbers(v, 1, -1, <<>>) : v \in {s}} : TRUE

RECURSIVE SelectInRange(_, _)
\* [n for n in nums if 1 <= n <= hi]
SelectInRange(nums, hi) ==
    IF nums = <<>> THEN <<>>
    ELSE (IF 1 <= Head(nums) /\ Head(nums) <= hi THEN <<Head(nums)>> ELSE <<>>)
         \o SelectInRange(Tail(nums), hi)

RECURSIVE Join(_, _)
\* sep.join(parts)
Join(parts, sep) ==
    IF parts = <<>> THEN ""
    ELSE IF Len(parts) = 1 THEN Head(parts)
    ELSE Head(parts) \o sep \o Join(Tail(parts), sep)

\* f"{x:.3f}" of a similarity given in thousandths, 0..1000
Fmt3(t) ==
    ToString(t \div 1000) \o "." \o ToString((t \div 100) % 10)
        \o ToString((t \div 10) % 10) \o ToString(t % 10)

---------------------------------------------------------------------------
\* Data model (system_rag/models/data_models.py)

\* SearchResult; similarity in thousandths
SearchResult(id, sim, url, b64) ==
    [document_id |-> id, content |-> "texto da pagina " \o ToString(id),
     document_name |-> "manual", page_number |-> id, similarity |-> sim,
     image_url |-> url, image_base64 |-> b64,
     has_image |-> (url # "" \/ b64 # "")]

\* RerankedResult, with the number of LLM calls the reranker made
RerankedResult(docs, just, idx, total, ncalls) ==
    [selected_docs |-> docs, justification |-> just, indices |-> idx,
     total_candidates |-> total, llm_calls |-> ncalls]

\* str(e) of the exception an external client raises
ErrorText == "connection error"

---------------------------------------------------------------------------
\* SearchReranker (reranker.py)

IndicesMarker == "paginas_selecionadas"
JustificationMarker == "Justificativa:"
DefaultJustification == "Justificativa nao fornecida."
FirstCandidateJustification == "Fallback: selecao automatica do primeiro candidato"

RECURSIVE ParseLines(_, _, _, _)
\* the line loop of _parse_rerank_response: (selected_nums, justification)
ParseLines(lines, ncand, nums, just) ==
    IF lines = <<>> THEN [nums |-> nums, just |-> just]
    ELSE CHOOSE r \in
           {IF StartsWith(Lower(line), IndicesMarker)
            THEN ParseLines(Tail(lines), ncand, SelectInRange(FindNumbers(line), ncand), just)
            ELSE IF StartsWith(line, JustificationMarker)
            THEN ParseLines(Tail(lines), ncand, nums, Strip(Remove(line, JustificationMarker)))
            ELSE ParseLines(Tail(lines), ncand, nums, just)
            : line \in {Strip(Head(lines))}} : TRUE

\* faulty variant: no fallback when no valid index was parsed
ParseNoFallback(lines, candidates) ==
    LET p == ParseLines(lines, Len(candidates), <<>>, DefaultJustification) IN
    [selected_docs |-> [i \in 1..Len(p.nums) |-> candidates[p.nums[i]]],
     justification |-> p.just,
     indices |-> [i \in 1..Len(p.nums) |-> p.nums[i] - 1]]

\* _parse_rerank_response(response_text.splitlines(), candidates); candidates non-empty
ParseRerankResponse(lines, candidates) ==
    CHOOSE r \in
      {IF p.nums # <<>>
       THEN [selected_docs |-> [i \in 1..Len(p.nums) |-> candidates[p.nums[i]]],
             justification |-> p.just,
             indices |-> [i \in 1..Len(p.nums) |-> p.nums[i] - 1]]
       ELSE [selected_docs |-> <<candidates[1]>>,
             justification |-> FirstCandidateJustification,
             indices |-> <<0>>]
       : p \in {ParseLines(lines, Len(candidates), <<>>, DefaultJustification)}} : TRUE

\* faulty variant: the fallback keeps only the first result
RerankFallbackFirstOnly(search_results, max_selected, ncalls) ==
    RerankedResult(Slice(search_results, 1),
                   "Fallback devido a erro: " \o ErrorText,
                   <<0>>, Len(search_results), ncalls)

\* the except branch of SearchReranker.rerank_results
RerankFallback(search_results, max_selected, ncalls) ==
    LET fallback_selected == Slice(search_results, max_selected) IN
    RerankedResult(fallback_selected,
                   "Fallback devido a erro: " \o ErrorText,
                   [i \in 1..Len(fallback_selected) |-> i - 1],
                   Len(search_results), ncalls)

\* SearchReranker.rerank_results; llm is what chat.completions.create does when
\* it is called: [kind |-> "raise"] or [kind |-> "text", lines |-> ...]
RerankResults(search_results, max_selected, max_candidates, llm) ==
    IF search_results = <<>>
    THEN RerankedResult(<<>>, "Nenhum candidato disponivel", <<>>, 0, 0)
    ELSE LET candidates == Slice(search_results, max_candidates) IN
         IF Len(candidates) = 1
         THEN RerankedResult(<<candidates[1]>>,
                  "Unico candidato disponivel: " \o candidates[1].document_name
                      \o ", pagina " \o ToString(candidates[1].page_number),
                  <<0>>, 1, 0)
         ELSE IF llm.kind = "raise" \/ candidates = <<>>
         THEN RerankFallback(search_results, max_selected, 1)
         ELSE LET p == ParseRerankResponse(llm.lines, candidates) IN
              RerankedResult(p.selected_docs, p.justification, p.indices,
                             Len(candidates), 1)

\* SimpleReranker.rerank_results
SimpleRerankResults(search_results, max_selected, similarity_threshold) ==
    LET above == SelectSeq(search_results,
                           LAMBDA r : r.similarity >= similarity_threshold)
        filtered_results == IF above = <<>> THEN Slice(search_results, max_selected)
                            ELSE above
        selected == Slice(filtered_results, max_selected)
        scores == [i \in 1..Len(selected) |-> Fmt3(selected[i].similarity)]
        justification ==
            IF Len(selected) = 1
            THEN "Documento mais similar (score: " \o scores[1] \o ")"
            ELSE "Top " \o ToString(Len(selected))
                 \o " documentos por similaridade (scores: " \o Join(scores, ", ") \o ")"
    IN  RerankedResult(selected, justification,
                       [i \in 1..Len(selected) |-> i - 1],
                       Len(search_results), 0)

---------------------------------------------------------------------------
\* QueryTransformer (query_transformer.py)

\* any(p in s for p in patterns)
AnyIn(s, patterns) == \E v \in {s} : \E p \in patterns : Contains(v, p)

NotApplicable == "Not applicable"
DocPrefix == "Sobre o documento: "
CacheKeyLen == 50
MaxCacheSize == 1000

greeting_patterns ==
    {"oi", "ola", "hello", "hi", "hey",
     "bom dia", "boa tarde", "boa noite", "good morning",
     "opa", "salve", "e ai"}

thank_patterns ==
    {"obrigado", "obrigada", "thanks", "thank you", "valeu", "brigado", "grato", "grata"}

document_terms ==
    {"zep", "graphiti", "rag", "temporal", "knowledge graph",
     "grafo", "arquitetura", "paper", "documento", "artigo",
     "tabela", "table", "figura", "figure", "performance",
     "resultado", "metodologia", "algorithm", "invalidacao",
     "memoria", "embedding", "vector", "similarity"}

inquiry_keywords ==
    {"explique", "explain", "como", "how", "o que", "what",
     "quais", "which", "where", "onde", "quando", "when",
     "por que", "why", "porque", "me fale", "tell me",
     "descreva", "describe", "mostre", "show", "qual",
     "quero saber", "want to know", "preciso entender",
     "pode explicar", "can you explain"}

contextual_pronouns ==
    {"isso", "isto", "aquilo", "ele", "ela", "eles", "elas",
     "this", "that", "these", "those", "it", "they"}

\* a chat message
Msg(role, content) == [role |-> role, content |-> content]

RECURSIVE GetLastUserMessage(_)
GetLastUserMessage(h) ==
    IF h = <<>> THEN ""
    ELSE IF h[Len(h)].role = "user" THEN h[Len(h)].content
    ELSE GetLastUserMessage(SubSeq(h, 1, Len(h) - 1))

IsSimpleGreeting(message) ==
    WordCount(message) <= 2 /\ AnyIn(message, greeting_patterns)

IsSimpleThanks(message) ==
    AnyIn(message, thank_patterns) /\ WordCount(message) <= 3

MentionsDocumentDirectly(message) == AnyIn(message, document_terms)

IsGeneralDocumentInquiry(message) ==
    AnyIn(message, inquiry_keywords) \/ AnyIn(message, {"?", "qual", "como", "o que"})

HasContextualReferences(message) == AnyIn(message, contextual_pronouns)

HasDocumentContext(h) ==
    \E i \in 1..Len(LastN(h, 6)) :
        /\ LastN(h, 6)[i].role = "assistant"
        /\ AnyIn(Lower(LastN(h, 6)[i].content), {"documento", "pagina", "paper", "artigo"})

HasInquiryPattern(message) == AnyIn(message, inquiry_keywords)

\* faulty variant: a mention of a document term is tested before the greeting
DeterministicTermsFirst(message, h) ==
    LET message_lower == Strip(Lower(message)) IN
    IF MentionsDocumentDirectly(message_lower) THEN message
    ELSE IF IsSimpleGreeting(message_lower) THEN NotApplicable
    ELSE IF IsSimpleThanks(message_lower) THEN NotApplicable
    ELSE IF IsGeneralDocumentInquiry(message_lower) THEN DocPrefix \o message
    ELSE IF HasContextualReferences(message_lower) /\ HasDocumentContext(h)
         THEN DocPrefix \o message
    ELSE IF HasInquiryPattern(message_lower) THEN DocPrefix \o message
    ELSE "NEEDS_AI"

\* _deterministic_classification
DeterministicClassification(message, h) ==
    LET message_lower == Strip(Lower(message)) IN
    IF IsSimpleGreeting(message_lower) THEN NotApplicable
    ELSE IF IsSimpleThanks(message_lower) THEN NotApplicable
    ELSE IF MentionsDocumentDirectly(message_lower) THEN message
    ELSE IF IsGeneralDocumentInquiry(message_lower) THEN DocPrefix \o message
    ELSE IF HasContextualReferences(message_lower) /\ HasDocumentContext(h)
         THEN DocPrefix \o message
    ELSE IF HasInquiryPattern(message_lower) THEN DocPrefix \o message
    ELSE "NEEDS_AI"

\* _safe_fallback
SafeFallback(message) ==
    IF AnyIn(Lower(message), document_terms) THEN message ELSE DocPrefix \o message

RECURSIVE StripQuotes(_)
\* s.strip('"\'')
StripQuotes(s) ==
    IF Len(s) > 0 /\ SubSeq(s, 1, 1) \in {"\"", "'"} THEN StripQuotes(SubSeq(s, 2, Len(s)))
    ELSE IF Len(s) > 0 /\ SubSeq(s, Len(s), Len(s)) \in {"\"", "'"}
         THEN StripQuotes(SubSeq(s, 1, Len(s) - 1))
    ELSE s

RECURSIVE CutPrefixes(_, _)
CutPrefixes(output, prefixes) ==
    IF prefixes = <<>> THEN output
    ELSE IF StartsWith(Lower(output), Head(prefixes))
         THEN CutPrefixes(Strip(SubSeq(output, Len(Head(prefixes)) + 1, Len(output))),
                          Tail(prefixes))
    ELSE CutPrefixes(output, Tail(prefixes))

\* _clean_ai_output
CleanAiOutput(output) ==
    StripQuotes(CutPrefixes(output, <<"rag query:", "query:", "pergunta:", "question:">>))

\* _ai_transformation; llm is what the completion call does
AiTransformation(message, h, llm) ==
    IF llm.kind = "raise" THEN SafeFallback(message)
    ELSE CleanAiOutput(Strip(llm.text))

\* _create_cache_key
CreateCacheKey(message, h) ==
    LET recent == LastN(h, 3)
        has_topic == \E i \in 1..Len(recent) : AnyIn(Lower(recent[i].content), document_terms)
        context_key == IF has_topic THEN "doc_context" ELSE ""
    IN  Slice(Lower(message), CacheKeyLen) \o "||" \o context_key

\* faulty variant: a lookup never finds the key
CacheNeverHas(cache, key) == FALSE

\* the caches are dicts; a dict is modelled as the list of its items in
\* insertion order
CacheHas(cache, key) == \E i \in 1..Len(cache) : cache[i].key = key
CacheGet(cache, key) == cache[CHOOSE i \in 1..Len(cache) : cache[i].key = key].value

\* cache[key] = value
DictSet(cache, key, value) ==
    IF CacheHas(cache, key)
    THEN [i \in 1..Len(cache) |->
            IF cache[i].key = key THEN [key |-> key, value |-> value] ELSE cache[i]]
    ELSE Append(cache, [key |-> key, value |-> value])

\* an eviction that removes the newest entry instead of the oldest
CacheResultEvictNewest(cache, key, result, max_size) ==
    DictSet(IF Len(cache) >= max_size THEN SubSeq(cache, 1, Len(cache) - 1) ELSE cache,
            key, result)

\* _cache_result (and ImageFetcher._cache_image, which has the same body)
CacheResult(cache, key, result, max_size) ==
    DictSet(IF Len(cache) >= max_size THEN Tail(cache) ELSE cache, key, result)

FirstQuestion == "o que e zep?"
FirstAnswer == "Resposta com base no manual, pagina 1."

\* a greeting longer than the part of a message the cache key keeps, and a
\* request that begins with it
LongGreeting == "Ola Maria-Fernanda-Cristina-de-Albuquerque-Vasconcelos"
LongRequest == LongGreeting \o ", preciso dos precos do plano"

\* the histories SpecCache calls transform_query with
TransformHistories ==
    {<<Msg("user", "hello")>>,
     <<Msg("user", "obrigado")>>,
     <<Msg("user", "e os precos")>>,
     <<Msg("user", LongGreeting)>>,
     <<Msg("user", LongRequest)>>,
     <<Msg("user", FirstQuestion), Msg("assistant", FirstAnswer), Msg("user", "valeu")>>}

\* _create_cache_key and _deterministic_classification are functions of the
\* history alone; their values on the histories above are computed once
KnownCacheKeys ==
    [h \in TransformHistories |-> CreateCacheKey(GetLastUserMessage(h), h)]
KnownClassifications ==
    [h \in TransformHistories |-> DeterministicClassification(GetLastUserMessage(h), h)]

CacheKeyOf(last_message, h) ==
    IF h \in DOMAIN KnownCacheKeys THEN KnownCacheKeys[h]
    ELSE CreateCacheKey(last_message, h)

ClassificationOf(last_message, h) ==
    IF h \in DOMAIN KnownClassifications THEN KnownClassifications[h]
    ELSE DeterministicClassification(last_message, h)

\* transform_query: the value returned, the cache afterwards and the LLM calls
\* made; max_size is self.max_cache_size
TransformQuery(h, cache, llm, max_size) ==
    IF h = <<>> THEN [result |-> NotApplicable, cache |-> cache, llm_calls |-> 0]
    ELSE LET last_message == GetLastUserMessage(h) IN
    IF last_message = "" THEN [result |-> NotApplicable, cache |-> cache, llm_calls |-> 0]
    ELSE LET cache_key == CacheKeyOf(last_message, h) IN
    IF CacheHas(cache, cache_key)
    THEN [result |-> CacheGet(cache, cache_key), cache |-> cache, llm_calls |-> 0]
    ELSE LET deterministic_result == ClassificationOf(last_message, h) IN
    IF deterministic_result # "NEEDS_AI"
    THEN [result |-> deterministic_result,
          cache |-> CacheResult(cache, cache_key, deterministic_result, max_size),
          llm_calls |-> 0]
    ELSE LET ai_result == AiTransformation(last_message, h, llm) IN
         [result |-> ai_result,
          cache |-> CacheResult(cache, cache_key, ai_result, max_size),
          llm_calls |-> 1]

\* faulty variant: every transformed query is sent to retrieval
NeedsRagAlways(transformed_query) == TRUE

\* needs_rag
NeedsRag(transformed_query) == ~Contains(Lower(transformed_query), "not applicable")

---------------------------------------------------------------------------
\* ImageFetcher (image_fetcher.py)

MaxImageCacheSize == 100

\* base64 text of the image behind a URL
ImageOf(url) == "b64:" \o url

\* fetch_image_as_base64: the value returned (""  for None), the cache afterwards
\* and the downloads made; outcome is what the download does when it is made
FetchImageAsBase64(url, cache, outcome, max_size) ==
    IF CacheHas(cache, url)
    THEN [image |-> CacheGet(cache, url), cache |-> cache, downloads |-> 0]
    ELSE IF outcome = "ok"
    THEN [image |-> ImageOf(url),
          cache |-> CacheResult(cache, url, ImageOf(url), max_size),
          downloads |-> 1]
    ELSE [image |-> "", cache |-> cache, downloads |-> 1]

RECURSIVE EnrichDropFailed(_, _, _, _)
\* faulty variant: a candidate whose image could not be fetched is left out
EnrichDropFailed(search_results, cache, outcomes, max_size) ==
    IF search_results = <<>>
    THEN [results |-> <<>>, cache |-> cache, downloads |-> 0]
    ELSE LET result == Head(search_results)
             wanted == result.image_url # "" /\ result.image_base64 = ""
             f == IF wanted THEN FetchImageAsBase64(result.image_url, cache, Head(outcomes),
                                          max_size)
                  ELSE [image |-> "", cache |-> cache, downloads |-> 0]
             rest == EnrichDropFailed(Tail(search_results), f.cache, Tail(outcomes),
                                      max_size)
         IN  [results |-> (IF wanted /\ f.image = "" THEN <<>>
                           ELSE IF f.image # ""
                           THEN <<[result EXCEPT !.image_base64 = f.image,
                                                 !.has_image = TRUE]>>
                           ELSE <<result>>) \o rest.results,
              cache |-> rest.cache,
              downloads |-> f.downloads + rest.downloads]

RECURSIVE EnrichSearchResults(_, _, _, _)
\* enrich_search_results: outcomes[i] is what the download for candidate i does
EnrichSearchResults(search_results, cache, outcomes, max_size) ==
    IF search_results = <<>>
    THEN [results |-> <<>>, cache |-> cache, downloads |-> 0]
    ELSE LET result == Head(search_results)
             wanted == result.image_url # "" /\ result.image_base64 = ""
             f == IF wanted THEN FetchImageAsBase64(result.image_url, cache, Head(outcomes),
                                          max_size)
                  ELSE [image |-> "", cache |-> cache, downloads |-> 0]
             enriched_result ==
                 IF f.image # ""
                 THEN [result EXCEPT !.image_base64 = f.image, !.has_image = TRUE]
                 ELSE result
             rest == EnrichSearchResults(Tail(search_results), f.cache, Tail(outcomes),
                                         max_size)
         IN  [results |-> <<enriched_result>> \o rest.results,
              cache |-> rest.cache,
              downloads |-> f.downloads + rest.downloads]

---------------------------------------------------------------------------
\* RAGPipeline (rag_pipeline.py) and RetrievalTool (retrieval_tool.py)

EmbeddingError == "Falha ao gerar embedding da query"
NoDocumentsError == "Nenhum documento relevante encontrado"
NotFoundError ==
    "A informacao solicitada nao foi encontrada de forma explicita nos documentos"

PipelineGreetingReply ==
    "Ola! Sou seu assistente para consultas sobre documentos. Como posso ajudar voce hoje?"
AgentGreetingReply ==
    "Ola! Sou seu assistente especializado em busca de documentos. Como posso ajudar voce hoje?"
ThanksReply ==
    "De nada! Fico feliz em ajudar. Ha mais alguma coisa que gostaria de saber?"
GenericReply ==
    "Como posso ajudar voce com consultas sobre os documentos? Faca uma pergunta especifica e eu buscarei as informacoes relevantes."
InternalErrorReply == "Desculpe, ocorreu um erro interno. Tente novamente."

\* the result of search_and_answer / search_documents
Result(variant, answer, error, documents, justification, total) ==
    [variant |-> variant, answer |-> answer, error |-> error, documents |-> documents,
     justification |-> justification, total_candidates |-> total]

NoResult == Result("none", "", "", <<>>, "", 0)
ErrorResult(error) == Result("error", "", error, <<>>, "", 0)

response_greetings == {"oi", "ola", "hello", "hi", "boa tarde", "bom dia", "boa noite"}
response_thanks == {"obrigado", "obrigada", "thanks", "valeu"}

\* RAGPipeline._generate_simple_response
PipelineSimpleResponse(query) ==
    IF AnyIn(Lower(query), response_greetings) THEN PipelineGreetingReply
    ELSE IF AnyIn(Lower(query), response_thanks) THEN ThanksReply
    ELSE GenericReply

\* RAGSearchAgent._generate_simple_response
AgentSimpleResponse(query) ==
    IF AnyIn(Lower(query), response_greetings) THEN AgentGreetingReply
    ELSE IF AnyIn(Lower(query), response_thanks) THEN ThanksReply
    ELSE GenericReply

\* stage 1 of search_and_answer / search_documents
ClassifyStage(query, hist, cache, llm, max_size) ==
    IF hist # <<>>
    THEN TransformQuery(Append(hist, Msg("user", query)), cache, llm, max_size)
    ELSE [result |-> query, cache |-> cache, llm_calls |-> 0]

\* the short-circuit test after stage 1
ShortCircuit(transformed_query) == ~NeedsRag(transformed_query)

\* VoyageEmbedder.embed_query: TRUE when it returns an embedding, FALSE when it raises
EmbedQueryReturns(api) == api = "vector"

\* faulty variant: a failed verifier call counts as not relevant
VerifyRelevanceRefuse(selected_docs, llm) ==
    IF selected_docs = <<>> THEN [relevant |-> FALSE, llm_calls |-> 0]
    ELSE IF llm.kind = "raise" THEN [relevant |-> FALSE, llm_calls |-> 1]
    ELSE [relevant |-> Contains(Lower(llm.text), "sim"), llm_calls |-> 1]

\* _verify_relevance
VerifyRelevance(selected_docs, llm) ==
    IF selected_docs = <<>> THEN [relevant |-> FALSE, llm_calls |-> 0]
    ELSE IF llm.kind = "raise" THEN [relevant |-> TRUE, llm_calls |-> 1]
    ELSE [relevant |-> Contains(Lower(llm.text), "sim"), llm_calls |-> 1]

\* faulty variant: the answer is generated whatever the verifier said
VerifyGateOpen(is_relevant) == TRUE

\* the gate after stage 6: TRUE when the run goes on to the answer
VerifyGate(is_relevant) == is_relevant

\* RAGPipeline._generate_contextual_answer
GenerateContextualAnswer(query, selected_docs, llm) ==
    IF llm.kind = "raise" THEN "Erro ao processar resposta: " \o ErrorText
    ELSE llm.text

\* faulty variant: the handler lets the exception through
ReraiseExcept == [raised |-> TRUE, result |-> NoResult]

\* the except clause of search_and_answer
PipelineExcept == [raised |-> FALSE, result |-> ErrorResult("Erro interno: " \o ErrorText)]

\* the except clause of search_documents
ToolExcept == [raised |-> FALSE, result |-> ErrorResult("Erro na busca: " \o ErrorText)]

---------------------------------------------------------------------------
\* ModularConversationalRAG (conversational_rag.py)

ModularMaxCandidates == 5
ModularMaxSelected == 2
ModularHistoryLimit == 20
ModularHistoryKeep == 16

\* the response ask builds from the pipeline result
ModularResponse(result) ==
    IF result.variant = "error"
    THEN "Desculpe, nao consegui encontrar informacoes sobre isso. " \o result.error
    ELSE result.answer

\* the history limit at the end of ask
ModularLimitHistory(h) ==
    IF Len(h) > ModularHistoryLimit THEN LastN(h, ModularHistoryKeep) ELSE h

\* the except clause of ask
ModularAskExcept == [raised |-> FALSE, response |-> InternalErrorReply]

---------------------------------------------------------------------------
\* RAGSearchAgent (rag_search_agent.py) and the Zep client (zep_client.py)

AgentMaxCandidates == 10
AgentMaxSelected == 2
AgentHistoryLimit == 20

\* _handle_search_error
AgentHandleSearchError(error) ==
    IF Contains(Lower(error), "nao foi encontrada")
    THEN "Nao encontrei informacoes especificas sobre sua pergunta nos documentos disponiveis. Voce poderia reformular a pergunta ou ser mais especifico?"
    ELSE IF Contains(Lower(error), "embedding")
    THEN "Ocorreu um problema tecnico com o processamento da sua pergunta. Tente novamente em alguns instantes."
    ELSE IF Contains(Lower(error), "ambiente")
    THEN "Existe um problema de configuracao do sistema. Por favor, contate o administrador."
    ELSE "Ocorreu um erro na busca: " \o error \o ". Tente reformular sua pergunta."

\* _generate_document_response; the documents the tool formats carry no title
AgentDocumentResponse(query, documents, justification, total, llm) ==
    LET answer ==
            IF llm.kind = "raise"
            THEN "Desculpe, nao consegui processar sua pergunta no momento. Com base na busca, encontrei informacoes sobre: "
                 \o Join([i \in 1..Len(Slice(documents, 3)) |-> "documento"], ", ")
                 \o ". Tente reformular sua pergunta."
            ELSE llm.text
    IN  IF Len(documents) > 1 /\ justification # "" /\ Contains(Lower(justification), "reranked")
        THEN answer \o "\n\n[Informacao processada atraves de analise inteligente de "
                 \o ToString(total) \o " documentos candidatos]"
        ELSE answer

\* _limit_history
LimitHistory(h, max_messages) ==
    IF Len(h) > max_messages THEN LastN(h, max_messages) ELSE h

\* the except clause of ask
AgentAskExcept == [raised |-> FALSE, response |-> InternalErrorReply]

\* get_zep_client: client is the module-level instance ("none" for None), key
\* tells whether ZEP_API_KEY is set, create is what building the SDK client does
GetZepClient(client, key, create) ==
    IF client # "none" THEN [raised |-> FALSE, client |-> client]
    ELSE IF ~key THEN [raised |-> TRUE, client |-> "none"]
    ELSE IF create = "ok" THEN [raised |-> FALSE, client |-> "ready"]
    ELSE [raised |-> FALSE, client |-> "none"]

\* is_zep_available, with the client it leaves behind
IsZepAvailable(client, key, create) ==
    LET c == GetZepClient(client, key, create) IN
    [raised |-> c.raised, available |-> c.client # "none", client |-> c.client]

---------------------------------------------------------------------------
\* SpecRerank: one call of a reranker on drawn inputs

DefaultMaxCandidates == 10
DefaultThreshold == 700

\* result lists of the vector store: pages 1..n, each below or above the threshold
ResultLists ==
    UNION {{[i \in 1..n |-> SearchResult(i, sims[i], "", "")] :
                sims \in [1..n -> {600, 850}]} : n \in 0..MaxResults}

RerankInputs ==
    [search_results : ResultLists,
     max_selected : 1..MaxSelectedBound,
     max_candidates : {2, DefaultMaxCandidates},
     similarity_threshold : {DefaultThreshold}]

NumLists == UNION {[1..k -> 0..MaxIndex] : k \in 0..MaxListed}

\* lists with a negative number, as an LLM may write them
NegativeLists == {<<-1, 2>>, <<-2>>}

IndicesLine(nums) ==
    "Paginas_Selecionadas: [" \o Join([i \in 1..Len(nums) |-> ToString(nums[i])], ", ")
        \o "]"

\* texts the rerank LLM may return, as their lines
RerankTexts ==
    {<<IndicesLine(l), "Justificativa: paginas mais relevantes">> :
        l \in NumLists \cup NegativeLists}
    \cup {<<>>,
          <<"Nao encontrei documentos relevantes.">>,
          <<"  paginas_selecionadas: 2 e 12", "justificativa: minuscula">>,
          <<"Paginas_Selecionadas: [1]", "Paginas_Selecionadas: [2]",
            "Justificativa: primeira", "Justificativa: segunda">>,
          <<"Paginas_Selecionadas: [2]", "Justificativa: ok", "Paginas_Selecionadas: []">>}

RerankLLMOutcomes ==
    {[kind |-> "raise", lines |-> <<>>]} \cup {[kind |-> "text", lines |-> t] : t \in RerankTexts}

NoLLM == [kind |-> "none", lines |-> <<>>]
NoRerank == RerankedResult(<<>>, "", <<>>, 0, 0)

AskOff ==
    /\ kind = "none"
    /\ pc = "off"
    /\ chat_history = <<>>
    /\ transformation_cache = <<>>
    /\ image_cache = <<>>
    /\ max_cache_size = <<>>
    /\ request = <<>>
    /\ prior = 0
    /\ asks = 0
    /\ run = <<>>
    /\ calls = <<>>
    /\ zep = <<>>

RerankOff ==
    /\ rr_pc = "off"
    /\ rr_in = <<>>
    /\ rr_llm = NoLLM
    /\ rr_out = NoRerank

InitRerank ==
    /\ rr_pc = "input"
    /\ rr_in \in RerankInputs
    /\ rr_llm = NoLLM
    /\ rr_out = NoRerank
    /\ AskOff

\* SearchReranker.rerank_results(query, search_results, max_selected)
RerankWithLLM ==
    /\ rr_pc = "input"
    /\ \E llm \in RerankLLMOutcomes :
        /\ rr_llm' = llm
        /\ rr_out' = RerankResults(rr_in.search_results, rr_in.max_selected,
                                   rr_in.max_candidates, llm)
    /\ rr_pc' = "reranked"
    /\ UNCHANGED <<rr_in, vars_ask>>

\* SimpleReranker.rerank_results(query, search_results, max_selected)
RerankSimple ==
    /\ rr_pc = "input"
    /\ rr_out' = SimpleRerankResults(rr_in.search_results, rr_in.max_selected,
                                     rr_in.similarity_threshold)
    /\ rr_pc' = "simple"
    /\ UNCHANGED <<rr_in, rr_llm, vars_ask>>

NextRerank == RerankWithLLM \/ RerankSimple

SpecRerank == InitRerank /\ [][NextRerank]_vars

\* the candidates the LLM reranker works on, and the numbers it parsed
RerankCandidates == Slice(rr_in.search_results, rr_in.max_candidates)
RerankLLMCalled == rr_pc = "reranked" /\ rr_out.llm_calls = 1
RerankParsed ==
    ParseLines(rr_llm.lines, Len(RerankCandidates), <<>>, DefaultJustification).nums

\* C4: every reranker output selects at most min(maxSelected, candidateCount)
\* candidates, whatever text the rerank LLM returned.
C4_BoundedSelection ==
    rr_pc \in {"reranked", "simple"} =>
        Len(rr_out.selected_docs)
            <= Min(rr_in.max_selected, Len(rr_in.search_results))

\* C5: a non-empty candidate list always yields at least one selected candidate,
\* in every failure mode of the rerank LLM; when no valid index is parsed from
\* its text the selection is exactly candidate #1 with the fallback justification.
C5_NonEmptySelection ==
    (rr_pc = "reranked" /\ rr_in.search_results # <<>>) =>
        /\ Len(rr_out.selected_docs) >= 1
        /\ (RerankLLMCalled /\ rr_llm.kind = "text" /\ RerankParsed = <<>>) =>
              /\ rr_out.selected_docs = <<rr_in.search_results[1]>>
              /\ rr_out.indices = <<0>>
              /\ rr_out.justification = FirstCandidateJustification

C5_Witness ==
    /\ RerankLLMCalled
    /\ rr_llm.kind = "text"
    /\ rr_llm.lines # <<>>
    /\ StartsWith(rr_llm.lines[1], "Paginas_Selecionadas")
    /\ RerankParsed = <<>>
    /\ rr_out.selected_docs = <<rr_in.search_results[1]>>

\* C7: with at least two candidates, when the rerank LLM call throws, the
\* decision is the first max_selected results in their original order (all of
\* them if fewer) and the justification names the fallback.
C7_FallbackOnThrow ==
    (RerankLLMCalled /\ rr_llm.kind = "raise" /\ Len(rr_in.search_results) >= 2) =>
        /\ rr_out.selected_docs
              = SubSeq(rr_in.search_results, 1,
                       Min(rr_in.max_selected, Len(rr_in.search_results)))
        /\ rr_out.indices = [i \in 1..Len(rr_out.selected_docs) |-> i - 1]
        /\ Contains(rr_out.justification, "Fallback")

C7_Witness ==
    /\ RerankLLMCalled
    /\ rr_llm.kind = "raise"
    /\ Len(rr_in.search_results) = 3
    /\ rr_in.max_selected = 2
    /\ Len(rr_out.selected_docs) = 2

---------------------------------------------------------------------------
\* The conversational entry points: ModularConversationalRAG.ask and
\* RAGSearchAgent.ask, one external call per step

\* how many documents the vector store returns (none also when it fails)
HitCounts == {0, 1, 2}

AskMessages == {"hello", "Ola", "o que e zep?", "e os precos"}

TransformLLMOutcomes ==
    {[kind |-> "raise", text |-> ""],
     [kind |-> "text", text |-> "Not applicable"],
     [kind |-> "text", text |-> "\"Query: precos do zep\""]}

EmbedOutcomes == {"vector", "error"}
FetchOutcomes == {"ok", "fail"}

PipelineRerankLLMOutcomes ==
    {[kind |-> "raise", lines |-> <<>>],
     [kind |-> "text", lines |-> <<"Paginas_Selecionadas: [2]",
                                   "Justificativa: Reranked pela pagina 2">>],
     [kind |-> "text", lines |-> <<"Paginas_Selecionadas: [2, 1]",
                                   "Justificativa: Reranked, as duas paginas respondem">>]}

VerifyLLMOutcomes ==
    {[kind |-> "raise", text |-> ""],
     [kind |-> "text", text |-> "Sim"],
     [kind |-> "text", text |-> "Nao"]}

AnswerLLMOutcomes ==
    {[kind |-> "raise", text |-> ""],
     [kind |-> "text", text |-> "Resposta com base no manual, pagina 1."]}

ZepOutcomes == {"ok", "raise"}
ZepCreateOutcomes == {"ok", "error"}

\* the documents of the vector store, most similar first
StoredDocument(i) ==
    SearchResult(i, 900 - 50 * i,
                 IF i % 2 = 0 THEN "https://r2/manual_p" \o ToString(i) \o ".png" ELSE "",
                 IF i % 3 = 0 THEN "aW1hZ2Vt" ELSE "")

\* VectorSearcher.search_similar returning n documents (none when it fails)
SearchSimilar(n) == [i \in 1..n |-> StoredDocument(i)]

NoCalls ==
    [transform_llm |-> 0, embed |-> 0, vector |-> 0, image |-> 0,
     rerank_llm |-> 0, verify_llm |-> 0, synth_llm |-> 0, zep_context |-> 0]

NewRun(msg) ==
    [msg |-> msg, tq |-> "", cands |-> <<>>, sel |-> <<>>, relevant |-> "none",
     verify_llm |-> "none", result |-> NoResult, response |-> "", raised |-> {}]

NoZep == [ids |-> FALSE, key |-> FALSE, client |-> "none", memory |-> <<>>]

MaxCandidatesOf(k) == IF k = "modular" THEN ModularMaxCandidates ELSE AgentMaxCandidates
MaxSelectedOf(k) == IF k = "modular" THEN ModularMaxSelected ELSE AgentMaxSelected
SearchExcept(k) == IF k = "modular" THEN PipelineExcept ELSE ToolExcept
AskExcept(k) == IF k = "modular" THEN ModularAskExcept ELSE AgentAskExcept

\* the history one answered ask leaves behind: ModularConversationalRAG keeps
\* the user message, RAGSearchAgent the user message and the reply
AfterOneAsk(k) ==
    IF k = "modular" THEN <<Msg("user", FirstQuestion)>>
    ELSE <<Msg("user", FirstQuestion), Msg("assistant", FirstAnswer)>>

\* no API request: ask is called directly
NoRequest == [session_id |-> "", user_id |-> "", message |-> "", clear_history |-> FALSE]

\* the cache bounds the pipeline's constructor leaves at their defaults
DefaultCacheSizes == [transform |-> MaxCacheSize, image |-> MaxImageCacheSize]

\* a new instance, or an instance that has answered FirstQuestion
InstanceStates ==
    /\ kind \in {"modular", "agent"}
    /\ prior \in {0, 1}
    /\ asks = prior
    /\ chat_history = IF prior = 0 THEN <<>> ELSE AfterOneAsk(kind)
    /\ pc = "idle"
    /\ transformation_cache = <<>>
    /\ image_cache = <<>>
    /\ max_cache_size = DefaultCacheSizes
    /\ request = NoRequest
    /\ run = NewRun("")
    /\ calls = NoCalls

\* the instance is called without a user and a session
InitCore ==
    /\ RerankOff
    /\ InstanceStates
    /\ zep = NoZep

\* the agent may be called with a user and a session, with or without
\* ZEP_API_KEY; an instance called that way starts new
Init ==
    /\ RerankOff
    /\ InstanceStates
    /\ zep \in {z \in [ids : BOOLEAN, key : BOOLEAN, client : {"none"}, memory : {<<>>}] :
                   /\ kind = "modular" => z = NoZep
                   /\ ~z.ids => ~z.key
                   /\ z.ids => prior = 0}

\* an exception reaches the except clause of ask
Abort(from) ==
    LET a == AskExcept(kind) IN
    /\ run' = [run EXCEPT !.response = a.response,
                          !.raised = @ \cup from \cup (IF a.raised THEN {"ask"} ELSE {})]
    /\ pc' = "done"

\* ask(user_message) is called
AskStart ==
    /\ pc \in {"idle", "done"}
    /\ asks < prior + MaxAsks
    /\ \E msg \in AskMessages :
         /\ run' = NewRun(msg)
         /\ IF kind = "agent" /\ zep.ids
            THEN pc' = "zep_available" /\ UNCHANGED chat_history
            ELSE /\ pc' = "classify"
                 /\ chat_history' = Append(chat_history, Msg("user", msg))
    /\ asks' = asks + 1
    /\ calls' = NoCalls
    /\ UNCHANGED <<kind, prior, max_cache_size, request, transformation_cache, image_cache, zep>>
    /\ UNCHANGED vars_rr

\* is_zep_available() in the condition that opens the memory flow
ZepAvailable ==
    /\ pc = "zep_available"
    /\ \E create \in ZepCreateOutcomes :
         LET a == IsZepAvailable(zep.client, zep.key, create) IN
         IF a.raised
         THEN /\ Abort({})
              /\ UNCHANGED <<chat_history, zep>>
         ELSE /\ zep' = [zep EXCEPT !.client = a.client]
              /\ run' = run
              /\ IF a.available
                 THEN pc' = "zep_context" /\ UNCHANGED chat_history
                 ELSE /\ pc' = "classify"
                      /\ chat_history' = Append(chat_history, Msg("user", run.msg))
    /\ UNCHANGED <<kind, prior, max_cache_size, request, transformation_cache, image_cache, asks, calls>>
    /\ UNCHANGED vars_rr

\* faulty variant: the user message is stored without reading the context
ZepContextSkipped ==
    /\ pc = "zep_context"
    /\ pc' = "zep_add_user"
    /\ UNCHANGED <<kind, prior, max_cache_size, request, chat_history, transformation_cache, image_cache, asks, run, calls, zep>>
    /\ UNCHANGED vars_rr

\* ensure_session_context; a failure is logged and the ask goes on without memory
ZepContext ==
    /\ pc = "zep_context"
    /\ \E outcome \in ZepOutcomes :
         IF outcome = "ok"
         THEN /\ run' = run
              /\ pc' = "zep_add_user"
              /\ UNCHANGED chat_history
         ELSE /\ run' = run
              /\ pc' = "classify"
              /\ chat_history' = Append(chat_history, Msg("user", run.msg))
    /\ calls' = [calls EXCEPT !.zep_context = @ + 1]
    /\ UNCHANGED <<kind, prior, max_cache_size, request, transformation_cache, image_cache, asks, zep>>
    /\ UNCHANGED vars_rr

\* add_memory_to_session for the user message, then the local history
ZepAddUser ==
    /\ pc = "zep_add_user"
    /\ \E outcome \in ZepOutcomes :
         IF outcome = "ok"
         THEN zep' = [zep EXCEPT !.memory = Append(@, "user")]
         ELSE zep' = zep
    /\ run' = run
    /\ pc' = "classify"
    /\ chat_history' = Append(chat_history, Msg("user", run.msg))
    /\ UNCHANGED <<kind, prior, max_cache_size, request, transformation_cache, image_cache, asks, calls>>
    /\ UNCHANGED vars_rr

\* stage 1: query transformation and the short-circuit for simple messages
Classify ==
    /\ pc = "classify"
    /\ \E llm \in TransformLLMOutcomes :
         LET hist == SubSeq(chat_history, 1, Len(chat_history) - 1)
             t == ClassifyStage(run.msg, hist, transformation_cache, llm,
                                max_cache_size.transform)
         IN  /\ transformation_cache' = t.cache
             /\ calls' = [calls EXCEPT !.transform_llm = @ + t.llm_calls]
             /\ IF ShortCircuit(t.result)
                THEN /\ run' = [run EXCEPT !.tq = t.result,
                                   !.result = Result("simple",
                                       IF kind = "modular"
                                       THEN PipelineSimpleResponse(run.msg) ELSE "",
                                       "", <<>>, "", 0)]
                     /\ pc' = "respond"
                ELSE /\ run' = [run EXCEPT !.tq = t.result]
                     /\ pc' = "embed"
    /\ UNCHANGED <<kind, prior, max_cache_size, request, chat_history, image_cache, asks, zep>>
    /\ UNCHANGED vars_rr

\* an embedding stage that calls the service again after a failure
EmbedWithRetry ==
    /\ pc = "embed"
    /\ calls.embed < 2
    /\ \E api \in EmbedOutcomes :
         IF EmbedQueryReturns(api) THEN pc' = "retrieve" ELSE pc' = "embed"
    /\ run' = run
    /\ calls' = [calls EXCEPT !.embed = @ + 1]
    /\ UNCHANGED <<kind, prior, max_cache_size, request, chat_history, transformation_cache, image_cache, asks, zep>>
    /\ UNCHANGED vars_rr

\* stage 2: the query embedding
Embed ==
    /\ pc = "embed"
    /\ \E api \in EmbedOutcomes :
         IF EmbedQueryReturns(api)
         THEN pc' = "retrieve" /\ run' = run
         ELSE LET h == SearchExcept(kind) IN
              IF h.raised
              THEN Abort({"search"})
              ELSE /\ run' = [run EXCEPT !.result = h.result]
                   /\ pc' = "respond"
    /\ calls' = [calls EXCEPT !.embed = @ + 1]
    /\ UNCHANGED <<kind, prior, max_cache_size, request, chat_history, transformation_cache, image_cache, asks, zep>>
    /\ UNCHANGED vars_rr

\* stage 3: the vector search
Retrieve ==
    /\ pc = "retrieve"
    /\ \E n \in HitCounts :
         LET documents == Slice(SearchSimilar(n), MaxCandidatesOf(kind)) IN
         IF documents = <<>>
         THEN /\ run' = [run EXCEPT !.result = ErrorResult(NoDocumentsError)]
              /\ pc' = "respond"
         ELSE /\ run' = [run EXCEPT !.cands = documents]
              /\ pc' = "enrich"
    /\ calls' = [calls EXCEPT !.vector = @ + 1]
    /\ UNCHANGED <<kind, prior, max_cache_size, request, chat_history, transformation_cache, image_cache, asks, zep>>
    /\ UNCHANGED vars_rr

\* stage 4: the images of the candidates
Enrich ==
    /\ pc = "enrich"
    /\ \E outcomes \in [1..Len(run.cands) -> FetchOutcomes] :
         LET e == EnrichSearchResults(run.cands, image_cache, outcomes,
                                      max_cache_size.image) IN
         /\ run' = [run EXCEPT !.cands = e.results]
         /\ image_cache' = e.cache
         /\ calls' = [calls EXCEPT !.image = @ + e.downloads]
    /\ pc' = "rerank"
    /\ UNCHANGED <<kind, prior, max_cache_size, request, chat_history, transformation_cache, asks, zep>>
    /\ UNCHANGED vars_rr

\* stage 5: re-ranking
Rerank ==
    /\ pc = "rerank"
    /\ \E llm \in PipelineRerankLLMOutcomes :
       \E r \in {RerankResults(run.cands, MaxSelectedOf(kind), MaxCandidatesOf(kind), llm)} :
         /\ run' = [run EXCEPT !.sel = r.selected_docs,
                               !.result = Result("none", "", "", <<>>, r.justification,
                                                 Len(run.cands))]
         /\ calls' = [calls EXCEPT !.rerank_llm = @ + r.llm_calls]
    /\ pc' = "verify"
    /\ UNCHANGED <<kind, prior, max_cache_size, request, chat_history, transformation_cache, image_cache, asks, zep>>
    /\ UNCHANGED vars_rr

\* a verifier stage that sends the run back to the re-ranking
VerifyLoops ==
    /\ pc = "verify"
    /\ pc' = "rerank"
    /\ calls' = [calls EXCEPT !.rerank_llm = 0]
    /\ UNCHANGED <<kind, prior, max_cache_size, request, chat_history, transformation_cache, image_cache, asks, run, zep>>
    /\ UNCHANGED vars_rr

\* stage 6: the relevance verifier and the gate behind it
Verify ==
    /\ pc = "verify"
    /\ \E llm \in VerifyLLMOutcomes :
         LET v == VerifyRelevance(run.sel, llm) IN
         /\ calls' = [calls EXCEPT !.verify_llm = @ + v.llm_calls]
         /\ IF VerifyGate(v.relevant)
            THEN /\ run' = [run EXCEPT !.relevant = IF v.relevant THEN "yes" ELSE "no",
                                       !.verify_llm = llm.kind]
                 /\ pc' = "synthesize"
            ELSE /\ run' = [run EXCEPT !.relevant = "no", !.verify_llm = llm.kind,
                                       !.result = ErrorResult(NotFoundError)]
                 /\ pc' = "respond"
    /\ UNCHANGED <<kind, prior, max_cache_size, request, chat_history, transformation_cache, image_cache, asks, zep>>
    /\ UNCHANGED vars_rr

\* stage 7: the answer from the selected documents; the pipeline writes it
\* itself, the agent's tool returns the documents and the agent writes it
Synthesize ==
    /\ pc = "synthesize"
    /\ \E llm \in AnswerLLMOutcomes :
         LET answer ==
                 IF kind = "modular"
                 THEN GenerateContextualAnswer(run.msg, run.sel, llm)
                 ELSE AgentDocumentResponse(run.msg, run.sel, run.result.justification,
                                            run.result.total_candidates, llm)
         IN  run' = [run EXCEPT !.result = Result("complete", answer, "", run.sel,
                                                    run.result.justification,
                                                    run.result.total_candidates)]
    /\ calls' = [calls EXCEPT !.synth_llm = @ + 1]
    /\ pc' = "respond"
    /\ UNCHANGED <<kind, prior, max_cache_size, request, chat_history, transformation_cache, image_cache, asks, zep>>
    /\ UNCHANGED vars_rr

\* the rest of ask after the search: the response and the local history
Respond ==
    /\ pc = "respond"
    /\ IF kind = "modular"
       THEN /\ run' = [run EXCEPT !.response = ModularResponse(run.result)]
            /\ chat_history' = ModularLimitHistory(chat_history)
            /\ pc' = "done"
       ELSE LET response ==
                    IF run.result.variant = "error"
                    THEN AgentHandleSearchError(run.result.error)
                    ELSE IF run.result.variant = "simple"
                    THEN AgentSimpleResponse(run.msg)
                    ELSE run.result.answer
            IN  /\ run' = [run EXCEPT !.response = response]
                /\ IF zep.ids
                   THEN /\ chat_history' = Append(chat_history, Msg("assistant", response))
                        /\ pc' = "zep_add_assistant"
                   ELSE /\ chat_history' =
                               LimitHistory(Append(chat_history, Msg("assistant", response)),
                                            AgentHistoryLimit)
                        /\ pc' = "done"
    /\ UNCHANGED <<kind, prior, max_cache_size, request, transformation_cache, image_cache, asks, calls, zep>>
    /\ UNCHANGED vars_rr

\* the assistant reply goes to the memory service, then _limit_history
ZepAddAssistant ==
    /\ pc = "zep_add_assistant"
    /\ \E create \in ZepCreateOutcomes, outcome \in ZepOutcomes :
         LET a == IsZepAvailable(zep.client, zep.key, create) IN
         IF a.raised
         THEN /\ Abort({})
              /\ UNCHANGED <<chat_history, zep>>
         ELSE /\ IF a.available /\ outcome = "ok"
                 THEN zep' = [zep EXCEPT !.client = a.client, !.memory = Append(@, "assistant")]
                 ELSE zep' = [zep EXCEPT !.client = a.client]
              /\ run' = run
              /\ chat_history' = LimitHistory(chat_history, AgentHistoryLimit)
              /\ pc' = "done"
    /\ UNCHANGED <<kind, prior, max_cache_size, request, transformation_cache, image_cache, asks, calls>>
    /\ UNCHANGED vars_rr

NextCore ==
    \/ AskStart
    \/ Classify
    \/ Embed
    \/ Retrieve
    \/ Enrich
    \/ Rerank
    \/ Verify
    \/ Synthesize
    \/ Respond

Next ==
    \/ AskStart
    \/ ZepAvailable
    \/ ZepContext
    \/ ZepAddUser
    \/ Classify
    \/ Embed
    \/ Retrieve
    \/ Enrich
    \/ Rerank
    \/ Verify
    \/ Synthesize
    \/ Respond
    \/ ZepAddAssistant

SpecCore == InitCore /\ [][NextCore]_vars

Spec == Init /\ [][Next]_vars

---------------------------------------------------------------------------
\* Properties of the conversational entry points

CannedReplies == {PipelineGreetingReply, AgentGreetingReply, ThanksReply, GenericReply}

HardErrors ==
    {EmbeddingError, NoDocumentsError,
     "Erro interno: " \o ErrorText, "Erro na busca: " \o ErrorText}

NoSearchCalls ==
    /\ calls.embed = 0
    /\ calls.vector = 0
    /\ calls.image = 0
    /\ calls.rerank_llm = 0
    /\ calls.verify_llm = 0

\* C1: no exception escapes RAGPipeline.search_and_answer, the retrieval
\* tool's search, ModularConversationalRAG.ask or RAGSearchAgent.ask: the
\* search always hands back a result and ask always returns a text.
C1_NoExceptionEscapes ==
    /\ run.raised = {}
    /\ pc = "respond" => run.result.variant \in {"simple", "error", "complete"}
    /\ pc \in {"zep_add_assistant", "done"} => run.response # ""

\* an embedding call failed inside search_and_answer and ask returned a text
C1_Witness ==
    /\ pc = "done"
    /\ kind = "modular"
    /\ calls.embed = 1
    /\ run.result = ErrorResult("Erro interno: " \o ErrorText)
    /\ run.response # ""

\* C2: a greeting ("hello", "Ola"), whatever the history and also on the first
\* turn, is answered with the canned greeting and without any embedding,
\* vector store or LLM call.
C2_GreetingWithoutCalls ==
    run.msg \in {"hello", "Ola"} =>
        /\ NoSearchCalls
        /\ calls.transform_llm = 0
        /\ calls.synth_llm = 0
        /\ pc = "done" =>
              run.response = IF kind = "modular" THEN PipelineGreetingReply
                             ELSE AgentGreetingReply

\* C3: when the verifier answers that the selected documents do not answer
\* the query, the run ends with the insufficient-evidence result, which is
\* none of the hard errors, and the answer synthesizer is never called.
C3_InsufficientEvidence ==
    run.relevant = "no" =>
        /\ pc \in {"respond", "done"}
        /\ run.result = ErrorResult(NotFoundError)
        /\ NotFoundError \notin HardErrors
        /\ calls.synth_llm = 0

\* the verifier LLM answered no and the ask has returned
C3_Witness ==
    /\ pc = "done"
    /\ run.relevant = "no"
    /\ run.verify_llm = "text"
    /\ calls.verify_llm = 1

\* C6: when the classifier's output is the not-applicable sentinel, no
\* embedding, vector store, image, reranker or verifier call is made and the
\* ask ends with a canned conversational reply.
C6_ShortCircuitSkipsSearch ==
    Contains(Lower(run.tq), "not applicable") =>
        /\ NoSearchCalls
        /\ calls.synth_llm = 0
        /\ pc \in {"respond", "done"}
        /\ pc = "done" => run.response \in CannedReplies

\* the transformer classified a greeting of a running conversation
C6_Witness ==
    /\ pc = "done"
    /\ prior = 1
    /\ run.msg = "Ola"
    /\ run.tq = NotApplicable
    /\ run.response \in CannedReplies

\* C8: when the verifier LLM call throws, the documents count as relevant and
\* the run goes on to the answer synthesis.
C8_VerifierFailureProceeds ==
    run.verify_llm = "raise" =>
        /\ run.relevant = "yes"
        /\ pc \in {"synthesize", "respond", "done"}
        /\ pc \in {"respond", "done"} =>
              /\ calls.synth_llm = 1
              /\ run.result.variant = "complete"

\* the verifier call failed and the answer was synthesized
C8_Witness ==
    /\ pc = "done"
    /\ run.verify_llm = "raise"
    /\ calls.verify_llm = 1
    /\ calls.synth_llm = 1

\* C9: whatever makes the memory service unavailable (API key not configured,
\* client not created, an operation failing), an ask with a user and a
\* session still runs the search and returns its reply, which it also keeps
\* in the local history.
C9_MemoryFailuresAbsorbed ==
    (pc = "done" /\ zep.ids) =>
        /\ run.tq # ""
        /\ run.response # InternalErrorReply
        /\ chat_history # <<>>
        /\ chat_history[Len(chat_history)] = Msg("assistant", run.response)

\* C10: k asks on a new instance leave 2k entries in the chat history,
\* alternately of the user and of the assistant.
C10_HistoryAlternates ==
    (prior = 0 /\ pc = "done") =>
        /\ Len(chat_history) = 2 * asks
        /\ \A i \in 1..Len(chat_history) :
              chat_history[i].role = IF i % 2 = 1 THEN "user" ELSE "assistant"

---------------------------------------------------------------------------
\* SpecCache: a QueryTransformer or an ImageFetcher built with a small
\* max_cache_size and called any number of times by one thread

MaxCacheBound == 2     \* largest max_cache_size of the two caches

ImageUrls == {"https://r2/manual_p" \o ToString(i) \o ".png" : i \in 1..3}

\* what the model keeps of the last call and of the one before it
CacheCall(arg, result, ext_calls, llm, evicted, repeats, prev) ==
    [arg |-> arg, result |-> result, ext_calls |-> ext_calls, llm |-> llm,
     evicted |-> evicted, repeats |-> repeats,
     prev_arg |-> prev.arg, prev_result |-> prev.result,
     prev_ext_calls |-> prev.ext_calls, prev_llm |-> prev.llm]

NoCacheCall ==
    [arg |-> "", result |-> "", ext_calls |-> 0, llm |-> "none", evicted |-> "",
     repeats |-> FALSE, prev_arg |-> "", prev_result |-> "", prev_ext_calls |-> 0,
     prev_llm |-> "none"]

\* the key an insertion into a full cache removes ("" when none is removed)
Evicted(before, after) ==
    IF before # <<>> /\ ~CacheHas(after, before[1].key) THEN before[1].key ELSE ""

InitCache ==
    /\ RerankOff
    /\ kind \in {"transformer", "fetcher"}
    /\ pc = "ready"
    /\ chat_history = <<>>
    /\ transformation_cache = <<>>
    /\ image_cache = <<>>
    /\ max_cache_size \in {[transform |-> b, image |-> b] : b \in 1..MaxCacheBound}
    /\ request = NoRequest
    /\ prior = 0
    /\ asks = 0
    /\ run = NoCacheCall
    /\ calls = NoCalls
    /\ zep = NoZep

\* QueryTransformer.transform_query(chat_history)
TransformCall ==
    /\ kind = "transformer"
    /\ \E h \in TransformHistories, llm \in TransformLLMOutcomes :
         LET t == TransformQuery(h, transformation_cache, llm, max_cache_size.transform) IN
         /\ transformation_cache' = t.cache
         /\ chat_history' = h
         /\ run' = CacheCall(GetLastUserMessage(h), t.result, t.llm_calls,
                             IF t.llm_calls = 0 THEN "none" ELSE llm.kind,
                             Evicted(transformation_cache, t.cache),
                             pc = "called" /\ h = chat_history, run)
    /\ pc' = "called"
    /\ UNCHANGED <<kind, prior, max_cache_size, request, image_cache, asks, calls, zep>>
    /\ UNCHANGED vars_rr

\* ImageFetcher.fetch_image_as_base64(image_url)
FetchCall ==
    /\ kind = "fetcher"
    /\ \E url \in ImageUrls, outcome \in FetchOutcomes :
         LET f == FetchImageAsBase64(url, image_cache, outcome, max_cache_size.image) IN
         /\ image_cache' = f.cache
         /\ run' = CacheCall(url, f.image, f.downloads,
                             IF f.downloads = 0 THEN "none" ELSE outcome,
                             Evicted(image_cache, f.cache),
                             pc = "called" /\ url = run.arg, run)
    /\ pc' = "called"
    /\ UNCHANGED <<kind, prior, max_cache_size, request, chat_history, transformation_cache,
                   asks, calls, zep>>
    /\ UNCHANGED vars_rr

NextCache == TransformCall \/ FetchCall

SpecCache == InitCache /\ [][NextCache]_vars

\* C11: a transform_query call with the same history as the call just before
\* it on the same transformer returns the same result and makes no LLM call,
\* whatever the LLM call of the first one did.
C11_RepeatedTransformCached ==
    (kind = "transformer" /\ run.repeats) =>
        /\ run.result = run.prev_result
        /\ run.ext_calls = 0

\* the first call's LLM call failed, the second call had the same history
C11_Witness ==
    /\ kind = "transformer"
    /\ run.repeats
    /\ run.prev_llm = "raise"
    /\ run.prev_ext_calls = 1
    /\ run.result = run.prev_result

\* C12: a transform_query call whose last user message is a simple greeting
\* or a simple thanks returns the not-applicable sentinel, for which needs_rag
\* is false, and makes no LLM call, whatever calls were made before it.
C12_GreetingNeverNeedsRag ==
    (kind = "transformer" /\ pc = "called"
        /\ (\/ IsSimpleGreeting(Strip(Lower(run.arg)))
            \/ IsSimpleThanks(Strip(Lower(run.arg))))) =>
        /\ run.result = NotApplicable
        /\ ~NeedsRag(run.result)
        /\ run.ext_calls = 0

---------------------------------------------------------------------------
\* Properties of the stages of search_and_answer / search_documents

\* the embedding call gave no vector and the search has returned
EmbeddingFailed == pc \in {"respond", "done"} /\ calls.embed = 1 /\ calls.vector = 0

\* the vector store gave no document and the search has returned
NoCandidatesFound == pc \in {"respond", "done"} /\ calls.vector = 1 /\ run.cands = <<>>

\* C13: when the embedding service yields no vector the search ends with the
\* embedding-failure error and never calls the vector store; when the vector
\* store returns no hit it ends with the no-documents error; in both cases
\* the images, the reranker, the verifier and the synthesizer are not called.
C13_RetrievalErrorsTyped ==
    /\ EmbeddingFailed => run.result = ErrorResult(EmbeddingError)
    /\ NoCandidatesFound => run.result = ErrorResult(NoDocumentsError)
    /\ (EmbeddingFailed \/ NoCandidatesFound) =>
          /\ calls.image = 0
          /\ calls.rerank_llm = 0
          /\ calls.verify_llm = 0
          /\ calls.synth_llm = 0

---------------------------------------------------------------------------
\* SpecSessions: POST /v1/agents/rag-search/ask served for several sessions.
\* AgentOperator keeps one RAGSearchAgent per agent_id in _agent_instances
\* and every request is answered by that instance.

MaxRequests == 2

Sessions == {"sessao-a", "sessao-b"}

\* the user of a session, and the message the session sends
UserOf(session_id) == IF session_id = "sessao-a" THEN "ana-1" ELSE "bia-2"

MessageOf(session_id) == IF session_id = "sessao-a" THEN "o que e zep?" ELSE "e os precos"

\* the server has started: no agent instance exists yet, and the memory
\* service is configured or not
InitSessions ==
    /\ RerankOff
    /\ kind = "none"
    /\ pc = "idle"
    /\ chat_history = <<>>
    /\ transformation_cache = <<>>
    /\ image_cache = <<>>
    /\ max_cache_size = DefaultCacheSizes
    /\ request = NoRequest
    /\ prior = 0
    /\ asks = 0
    /\ run = NewRun("")
    /\ calls = NoCalls
    /\ zep \in [ids : {TRUE}, key : BOOLEAN, client : {"none"}, memory : {<<>>}]

\* ask_agent: get_agent returns the cached instance (created on the first
\* request), clear_history empties its history when asked to, and ask starts
\* with the request's user_id and session_id
AskAgent ==
    /\ pc \in {"idle", "done"}
    /\ asks < MaxRequests
    /\ \E session_id \in Sessions, clear_history \in BOOLEAN :
         /\ request' = [session_id |-> session_id, user_id |-> UserOf(session_id),
                        message |-> MessageOf(session_id), clear_history |-> clear_history]
         /\ run' = NewRun(MessageOf(session_id))
         /\ chat_history' = IF kind = "none" \/ clear_history THEN <<>> ELSE chat_history
    /\ kind' = "agent"
    /\ pc' = "zep_available"
    /\ asks' = asks + 1
    /\ calls' = NoCalls
    /\ UNCHANGED <<prior, max_cache_size, transformation_cache, image_cache, zep>>
    /\ UNCHANGED vars_rr

NextSessions ==
    \/ AskAgent
    \/ ZepAvailable
    \/ ZepContext
    \/ ZepAddUser
    \/ Classify
    \/ Embed
    \/ Retrieve
    \/ Enrich
    \/ Rerank
    \/ Verify
    \/ Synthesize
    \/ Respond
    \/ ZepAddAssistant

SpecSessions == InitSessions /\ [][NextSessions]_vars

\* C14: the history handed to search_documents for a request (chat_history
\* without its last entry, while the request is being classified) holds no
\* user turn of another session: every user turn in it is the message of the
\* request's own session.
C14_SessionsIsolated ==
    (kind = "agent" /\ pc = "classify") =>
        \A i \in 1..(Len(chat_history) - 1) :
            chat_history[i].role = "user" =>
                chat_history[i].content = MessageOf(request.session_id)

---------------------------------------------------------------------------
\* SpecThreads: two threads call transform_query (or fetch_image_as_base64)
\* on one shared instance.  Neither class takes a lock, so the statements of
\* the two calls interleave; each action below is one statement that reads or
\* writes the cache dictionary.

Threads == {1, 2}

SharedCache == IF kind = "transformer" THEN transformation_cache ELSE image_cache

SharedBound == IF kind = "transformer" THEN max_cache_size.transform ELSE max_cache_size.image

RECURSIVE WarmCaches(_, _, _)
\* the caches that up to n calls made one after the other leave behind
WarmCaches(k, max_size, n) ==
    IF n = 0 THEN {<<>>}
    ELSE LET before == WarmCaches(k, max_size, n - 1) IN
         before \cup
         (IF k = "transformer"
          THEN {TransformQuery(h, c, llm, max_size).cache :
                    h \in TransformHistories, c \in before, llm \in TransformLLMOutcomes}
          ELSE {FetchImageAsBase64(url, c, "ok", max_size).cache :
                    url \in ImageUrls, c \in before})

\* a thread that has not called yet
NoThreadCall ==
    [arg |-> "", key |-> "", value |-> "", oldest_key |-> "", result |-> "",
     alone |-> "", raised |-> FALSE]

InitThreads ==
    /\ RerankOff
    /\ kind \in {"transformer", "fetcher"}
    /\ max_cache_size \in {[transform |-> b, image |-> b] : b \in 1..MaxCacheBound}
    /\ transformation_cache \in
           IF kind = "transformer"
           THEN WarmCaches(kind, max_cache_size.transform, max_cache_size.transform)
           ELSE {<<>>}
    /\ image_cache \in
           IF kind = "fetcher"
           THEN WarmCaches(kind, max_cache_size.image, max_cache_size.image)
           ELSE {<<>>}
    /\ pc = [t \in Threads |-> "idle"]
    /\ run = [t \in Threads |-> NoThreadCall]
    /\ chat_history = <<>>
    /\ request = NoRequest
    /\ prior = 0
    /\ asks = 0
    /\ calls = NoCalls
    /\ zep = NoZep

\* the shared cache becomes c
SetSharedCache(c) ==
    IF kind = "transformer"
    THEN transformation_cache' = c /\ UNCHANGED image_cache
    ELSE image_cache' = c /\ UNCHANGED transformation_cache

\* the except clause of the call: transform_query returns _safe_fallback,
\* fetch_image_as_base64 returns None
ThreadExcept(t) ==
    /\ run' = [run EXCEPT ![t].raised = TRUE,
                          ![t].result = IF kind = "transformer"
                                        THEN SafeFallback(run[t].arg) ELSE ""]
    /\ pc' = [pc EXCEPT ![t] = "done"]

\* the call starts: "key in cache", and on a miss the value is computed
\* (classification and LLM call, or download) before the cache is touched again
ThreadLookup(t) ==
    /\ pc[t] = "idle"
    /\ IF kind = "transformer"
       THEN \E h \in TransformHistories, llm \in TransformLLMOutcomes :
              LET last_message == GetLastUserMessage(h)
                  cache_key == CacheKeyOf(last_message, h)
                  alone == TransformQuery(h, transformation_cache, llm,
                                          max_cache_size.transform).result
              IN  /\ run' = [run EXCEPT ![t] = [NoThreadCall EXCEPT
                                 !.arg = last_message, !.key = cache_key,
                                 !.value = alone, !.alone = alone]]
                  /\ pc' = [pc EXCEPT ![t] =
                                IF CacheHas(transformation_cache, cache_key)
                                THEN "read" ELSE "cache_len"]
       ELSE \E url \in ImageUrls, outcome \in FetchOutcomes :
              LET alone == FetchImageAsBase64(url, image_cache, outcome,
                                              max_cache_size.image).image
              IN  /\ run' = [run EXCEPT ![t] = [NoThreadCall EXCEPT
                                 !.arg = url, !.key = url, !.value = alone,
                                 !.alone = alone,
                                 !.result = IF CacheHas(image_cache, url) THEN "" ELSE alone]]
                  /\ pc' = [pc EXCEPT ![t] =
                                IF CacheHas(image_cache, url) THEN "read"
                                ELSE IF outcome = "ok" THEN "cache_len" ELSE "done"]
    /\ UNCHANGED <<kind, prior, max_cache_size, request, chat_history, transformation_cache,
                   image_cache, asks, calls, zep>>
    /\ UNCHANGED vars_rr

\* "return cache[key]" after the membership test succeeded
ThreadRead(t) ==
    /\ pc[t] = "read"
    /\ IF CacheHas(SharedCache, run[t].key)
       THEN /\ run' = [run EXCEPT ![t].result = CacheGet(SharedCache, run[t].key)]
            /\ pc' = [pc EXCEPT ![t] = "done"]
       ELSE ThreadExcept(t)
    /\ UNCHANGED <<kind, prior, max_cache_size, request, chat_history, transformation_cache,
                   image_cache, asks, calls, zep>>
    /\ UNCHANGED vars_rr

\* _cache_result / _cache_image: "if len(cache) >= max_cache_size"
ThreadCacheLen(t) ==
    /\ pc[t] = "cache_len"
    /\ pc' = [pc EXCEPT ![t] =
                  IF Len(SharedCache) >= SharedBound THEN "cache_oldest" ELSE "cache_set"]
    /\ UNCHANGED <<kind, prior, max_cache_size, request, chat_history, transformation_cache,
                   image_cache, asks, run, calls, zep>>
    /\ UNCHANGED vars_rr

\* "oldest_key = next(iter(cache))": StopIteration when the cache is empty
ThreadCacheOldest(t) ==
    /\ pc[t] = "cache_oldest"
    /\ IF SharedCache = <<>>
       THEN ThreadExcept(t)
       ELSE /\ run' = [run EXCEPT ![t].oldest_key = SharedCache[1].key]
            /\ pc' = [pc EXCEPT ![t] = "cache_del"]
    /\ UNCHANGED <<kind, prior, max_cache_size, request, chat_history, transformation_cache,
                   image_cache, asks, calls, zep>>
    /\ UNCHANGED vars_rr

\* "del cache[oldest_key]": KeyError when the key is no longer there
ThreadCacheDel(t) ==
    /\ pc[t] = "cache_del"
    /\ IF CacheHas(SharedCache, run[t].oldest_key)
       THEN /\ SetSharedCache(SelectSeq(SharedCache,
                                        LAMBDA e : e.key # run[t].oldest_key))
            /\ run' = run
            /\ pc' = [pc EXCEPT ![t] = "cache_set"]
       ELSE /\ ThreadExcept(t)
            /\ UNCHANGED <<transformation_cache, image_cache>>
    /\ UNCHANGED <<kind, prior, max_cache_size, request, chat_history, asks, calls, zep>>
    /\ UNCHANGED vars_rr

\* "cache[key] = value", and the call returns the value
ThreadCacheSet(t) ==
    /\ pc[t] = "cache_set"
    /\ SetSharedCache(DictSet(SharedCache, run[t].key, run[t].value))
    /\ run' = [run EXCEPT ![t].result = run[t].value]
    /\ pc' = [pc EXCEPT ![t] = "done"]
    /\ UNCHANGED <<kind, prior, max_cache_size, request, chat_history, asks, calls, zep>>
    /\ UNCHANGED vars_rr

NextThreads ==
    \E t \in Threads :
        \/ ThreadLookup(t)
        \/ ThreadRead(t)
        \/ ThreadCacheLen(t)
        \/ ThreadCacheOldest(t)
        \/ ThreadCacheDel(t)
        \/ ThreadCacheSet(t)

SpecThreads == InitThreads /\ [][NextThreads]_vars

\* C15: whatever the interleaving of two calls on a shared cache, a call that
\* has returned took no exception on the way, returned the value it would
\* have returned had it run alone from the cache it found, and the cache
\* never holds more entries than its bound.
C15_CachesThreadSafe ==
    /\ Len(SharedCache) <= SharedBound
    /\ \A t \in Threads :
           pc[t] = "done" => ~run[t].raised /\ run[t].result = run[t].alone

---------------------------------------------------------------------------
\* Properties of the caches under calls made one after the other (SpecCache)

\* what one call may do to the cache, a dictionary in insertion order: leave
\* it alone (a hit, a failed download), add an entry at the end when there
\* is room, or, when it is full, remove its first entry and add one at the end
CacheStepIsFifo ==
    LET before == SharedCache
        after == SharedCache'
    IN  \/ after = before
        \/ /\ Len(before) < SharedBound
           /\ Len(after) = Len(before) + 1
           /\ SubSeq(after, 1, Len(before)) = before
        \/ /\ Len(before) = SharedBound
           /\ Len(after) = SharedBound
           /\ SubSeq(after, 1, Len(after) - 1) = Tail(before)
           /\ ~CacheHas(after, before[1].key)

\* C16: with calls made one after the other and a bound B >= 1, each cache
\* holds at most B entries in every state, and an insertion into a full cache
\* removes exactly the entry inserted earliest among those present; a hit
\* leaves the cache, and so the eviction order, as it was.
C16_BoundedFifoCache ==
    /\ [](Len(SharedCache) <= SharedBound)
    /\ [][CacheStepIsFifo]_vars

\* two images are cached, the first is fetched again (a hit), then a third
\* is fetched: the image just hit is the one evicted
C16_Witness ==
    /\ kind = "fetcher"
    /\ pc = "called"
    /\ max_cache_size.image = 2
    /\ Len(image_cache) = 2
    /\ run.prev_ext_calls = 0
    /\ run.prev_arg # ""
    /\ run.evicted = run.prev_arg
    /\ ~CacheHas(image_cache, run.prev_arg)

---------------------------------------------------------------------------
\* SpecHistory: many ask calls on one instance.  Between the append of the
\* user message and the history limit no stage touches chat_history, so each
\* call is one action; run.appended records every turn appended since the
\* instance was made.

MaxTurns == 23

\* the asks-th message sent to the instance
NumberedQuestion(n) == "pergunta " \o ToString(n)

\* replies ask can give: an answer, and the reply to a search without documents
HistoryReplies(k) ==
    {FirstAnswer,
     IF k = "modular" THEN ModularResponse(ErrorResult(NoDocumentsError))
     ELSE AgentHandleSearchError(NoDocumentsError)}

HistoryRun(msg, response, appended) ==
    [msg |-> msg, response |-> response, appended |-> appended]

\* a new instance; the agent is called without a user and a session, or with
\* them while ZEP_API_KEY is not set
InitHistory ==
    /\ RerankOff
    /\ kind \in {"modular", "agent"}
    /\ pc = "idle"
    /\ chat_history = <<>>
    /\ transformation_cache = <<>>
    /\ image_cache = <<>>
    /\ max_cache_size = DefaultCacheSizes
    /\ request = NoRequest
    /\ prior = 0
    /\ asks = 0
    /\ run = HistoryRun("", "", <<>>)
    /\ calls = NoCalls
    /\ zep \in {NoZep} \cup
               (IF kind = "agent"
                THEN {[ids |-> TRUE, key |-> FALSE, client |-> "none", memory |-> <<>>]}
                ELSE {})

\* ModularConversationalRAG.ask from call to return
ModularAsk ==
    /\ kind = "modular"
    /\ asks < MaxTurns
    /\ Len(run.appended) < MaxTurns
    /\ \E response \in HistoryReplies(kind) :
         LET msg == NumberedQuestion(asks + 1)
             turn == Msg("user", msg)
         IN  /\ chat_history' = ModularLimitHistory(Append(chat_history, turn))
             /\ run' = HistoryRun(msg, response, Append(run.appended, turn))
    /\ asks' = asks + 1
    /\ pc' = "done"
    /\ UNCHANGED <<kind, prior, max_cache_size, request, transformation_cache, image_cache,
                   calls, zep>>
    /\ UNCHANGED vars_rr

\* RAGSearchAgent.ask from call to return
AgentAsk ==
    /\ kind = "agent"
    /\ asks < MaxTurns
    /\ Len(run.appended) < MaxTurns
    /\ LET msg == NumberedQuestion(asks + 1) IN
       IF zep.ids /\ IsZepAvailable(zep.client, zep.key, "ok").raised
       THEN /\ run' = HistoryRun(msg, AgentAskExcept.response, run.appended)
            /\ UNCHANGED chat_history
       ELSE \E response \in HistoryReplies(kind) :
              LET turns == <<Msg("user", msg), Msg("assistant", response)>> IN
              /\ chat_history' = LimitHistory(chat_history \o turns, AgentHistoryLimit)
              /\ run' = HistoryRun(msg, response, run.appended \o turns)
    /\ asks' = asks + 1
    /\ pc' = "done"
    /\ UNCHANGED <<kind, prior, max_cache_size, request, transformation_cache, image_cache,
                   calls, zep>>
    /\ UNCHANGED vars_rr

NextHistory == ModularAsk \/ AgentAsk

SpecHistory == InitHistory /\ [][NextHistory]_vars

\* s is the end of all: the last Len(s) entries of all, in the same order
IsSuffix(s, all) ==
    /\ Len(s) <= Len(all)
    /\ SubSeq(all, Len(all) - Len(s) + 1, Len(all)) = s

\* C17: whenever ask has returned, chat_history holds at most 20 entries and
\* is a contiguous suffix, in the original order, of all the turns appended
\* to it so far: truncation drops only the oldest entries.
C17_HistoryBoundedSuffix ==
    /\ Len(chat_history) <= AgentHistoryLimit
    /\ IsSuffix(chat_history, run.appended)

\* the 21st ask of the modular instance has cut its history to the last 16
C17_Witness ==
    /\ kind = "modular"
    /\ pc = "done"
    /\ Len(run.appended) = ModularHistoryLimit + 1
    /\ Len(chat_history) = ModularHistoryKeep
    /\ chat_history[1] = run.appended[Len(run.appended) - ModularHistoryKeep + 1]

---------------------------------------------------------------------------
\* The order of the stages of search_and_answer / search_documents (SpecCore)

\* the stages in the order of the code, and the counter of the service each calls
StageOrder ==
    <<"classify", "embed", "retrieve", "enrich", "rerank", "verify", "synthesize">>

CallOfStage ==
    <<"transform_llm", "embed", "vector", "image", "rerank_llm", "verify_llm", "synth_llm">>

\* the place of p in StageOrder, 0 when p is not a stage
StageIndex(p) ==
    IF \E i \in 1..Len(StageOrder) : StageOrder[i] = p
    THEN CHOOSE i \in 1..Len(StageOrder) : StageOrder[i] = p
    ELSE 0

\* a stage is entered from its predecessor only, the first one from outside
\* the pipeline; a stage is left for its successor or for the end of the run
StageStep ==
    /\ (StageIndex(pc') > 0 /\ pc' # pc) =>
           StageIndex(pc') = StageIndex(pc) + 1
    /\ (StageIndex(pc) > 0 /\ pc' # pc) =>
           \/ StageIndex(pc') = StageIndex(pc) + 1
           \/ pc' \in {"respond", "done"}

\* no service of the current stage or of a later one has been called yet
\* in this run, and a later service is called only after the earlier ones
CallsFollowStages ==
    /\ \A j \in 1..Len(StageOrder) :
           (StageIndex(pc) > 0 /\ j >= StageIndex(pc)) => calls[CallOfStage[j]] = 0
    /\ calls.vector > 0 => calls.embed > 0
    /\ (calls.rerank_llm > 0 \/ calls.verify_llm > 0 \/ calls.synth_llm > 0) =>
           calls.vector > 0

CallsAtMostOnce ==
    \A c \in {"embed", "vector", "rerank_llm", "verify_llm", "synth_llm"} : calls[c] <= 1

\* C18: in every run the stages that execute are a prefix of Classify, Embed,
\* Retrieve, Enrich, Rerank, Verify, Synthesize, each entered only when its
\* predecessor has completed, and the embedding service, the vector store, the
\* rerank LLM, the verifier LLM and the synthesis LLM are each called at most
\* once per run.
C18_StagesInOrder ==
    /\ [](CallsAtMostOnce /\ CallsFollowStages)
    /\ [][StageStep]_vars

\* a run that went through every stage and called each service once
C18_Witness ==
    /\ pc = "done"
    /\ run.result.variant = "complete"
    /\ calls.embed = 1
    /\ calls.vector = 1
    /\ calls.rerank_llm = 1
    /\ calls.verify_llm = 1
    /\ calls.synth_llm = 1

---------------------------------------------------------------------------
\* SpecCoreFair: SpecCore when every external call returns or fails.  ask
\* runs the stages one after the other on one thread, so a stage that can
\* run does run; nothing obliges the caller to ask again.

\* the steps of a run that has started; at most one of them can be taken
RunStep ==
    \/ Classify
    \/ Embed
    \/ Retrieve
    \/ Enrich
    \/ Rerank
    \/ Verify
    \/ Synthesize
    \/ Respond

SpecCoreFair == SpecCore /\ WF_vars(RunStep)

\* the search of the run is over: its result is with ask, or ask has returned
SearchEnded == pc \in {"respond", "done"} /\ run.msg # ""

\* the terminal outcomes the result of a search belongs to
RunOutcomes ==
    {o \in {"canned", "error", "insufficient", "answer"} :
        \/ o = "canned" /\ run.result.variant = "simple" /\ calls.embed = 0
        \/ o = "error" /\ run.result.variant = "error"
                       /\ run.result.error # NotFoundError
                       /\ calls.embed = 1
                       /\ calls.rerank_llm = 0 /\ calls.verify_llm = 0
                       /\ calls.synth_llm = 0
        \/ o = "insufficient" /\ run.result.variant = "error"
                              /\ run.result.error = NotFoundError
                              /\ run.relevant = "no"
        \/ o = "answer" /\ run.result.variant = "complete" /\ calls.synth_llm = 1}

\* C19: when every external call returns or fails, a search that has started
\* ends, and it ends in exactly one of: the canned conversational response,
\* an error result from the embedding or the retrieval, the
\* insufficient-evidence result of the verifier, or an answer.
C19_RunsTerminate ==
    /\ (StageIndex(pc) > 0) ~> SearchEnded
    /\ [](SearchEnded => Cardinality(RunOutcomes) = 1)

\* a search that the verifier ended with the insufficient-evidence result
C19_Witness ==
    /\ pc = "respond"
    /\ run.msg # ""
    /\ RunOutcomes = {"insufficient"}
    /\ calls.vector = 1
    /\ calls.synth_llm = 0



---------------------------------------------------------------------------
\* Answer synthesis failure

\* the texts the answer model returns when its call succeeds
AnswerTexts == {llm.text : llm \in {o \in AnswerLLMOutcomes : o.kind = "text"}}

\* the answer of the run is not one the answer model wrote
SynthesisFailed ==
    /\ calls.synth_llm = 1
    /\ pc # "synthesize"
    /\ run.result.variant = "complete"
    /\ \A t \in AnswerTexts : ~StartsWith(run.result.answer, t)

\* the answer names the document of each of the first three selected candidates
ListsSelectedNames(answer, docs) ==
    \A i \in 1..Len(Slice(docs, 3)) : Contains(answer, docs[i].document_name)

\* C20: when the answer-synthesis LLM call fails, the run still ends with an
\* answer result (no error variant, no exception), and the answer text is a
\* degraded answer that lists the titles/names of the top few selected
\* candidates.
C20_DegradedAnswerListsNames ==
    (calls.synth_llm = 1 /\ pc # "synthesize") =>
        /\ run.result.variant = "complete"
        /\ run.raised = {}
        /\ SynthesisFailed => ListsSelectedNames(run.result.answer, run.sel)


---------------------------------------------------------------------------
\* SpecEnrich: calls of enrich_search_results on one ImageFetcher

MaxEnriched == 2       \* longest list given to enrich_search_results
MaxEnrichCalls == 1    \* calls of enrich_search_results on the fetcher

\* a candidate on page i of the manual: without image, with one of two image
\* URLs to fetch, or with a URL and the image already there
EnrichCandidates(i) ==
    {SearchResult(i, 900 - 50 * i, c[1], c[2]) :
        c \in {<<"", "">>,
               <<"https://r2/manual_p1.png", "">>,
               <<"https://r2/manual_p2.png", "">>,
               <<"https://r2/manual_p1.png", "aW1hZ2Vt">>}}

EnrichLists ==
    UNION {{l \in [1..n -> UNION {EnrichCandidates(i) : i \in 1..n}] :
                \A i \in 1..n : l[i] \in EnrichCandidates(i)} : n \in 0..MaxEnriched}

EnrichRun(input, outcomes, results, before) ==
    [input |-> input, outcomes |-> outcomes, results |-> results, before |-> before]

InitEnrich ==
    /\ RerankOff
    /\ kind = "enricher"
    /\ pc = "ready"
    /\ chat_history = <<>>
    /\ transformation_cache = <<>>
    /\ max_cache_size \in {[transform |-> b, image |-> b] : b \in 1..MaxCacheBound}
    /\ image_cache \in {<<>>,
                        CacheResult(<<>>, "https://r2/manual_p1.png",
                                    ImageOf("https://r2/manual_p1.png"),
                                    max_cache_size.image)}
    /\ request = NoRequest
    /\ prior = 0
    /\ asks = 0
    /\ run = EnrichRun(<<>>, <<>>, <<>>, <<>>)
    /\ calls = NoCalls
    /\ zep = NoZep

\* ImageFetcher.enrich_search_results(search_results)
EnrichCall ==
    /\ kind = "enricher"
    /\ asks < MaxEnrichCalls
    /\ \E search_results \in EnrichLists :
         \E outcomes \in [1..Len(search_results) -> FetchOutcomes] :
           \E e \in {EnrichSearchResults(search_results, image_cache, outcomes,
                                         max_cache_size.image)} :
             /\ run' = EnrichRun(search_results, outcomes, e.results, image_cache)
             /\ image_cache' = e.cache
             /\ calls' = [calls EXCEPT !.image = @ + e.downloads]
    /\ asks' = asks + 1
    /\ pc' = "called"
    /\ UNCHANGED <<kind, prior, max_cache_size, request, chat_history, transformation_cache, zep>>
    /\ UNCHANGED vars_rr

NextEnrich == EnrichCall

SpecEnrich == InitEnrich /\ [][NextEnrich]_vars

\* the candidate asks for a download: image_url set, image_base64 not set
FetchWanted(result) == result.image_url # "" /\ result.image_base64 = ""

\* the image of candidate i cannot come from the cache: it was not cached
\* before the call and no earlier candidate of the call downloaded it
NotCachedBefore(i) ==
    /\ ~CacheHas(run.before, run.input[i].image_url)
    /\ \A j \in 1..(i - 1) :
         ~(/\ FetchWanted(run.input[j])
           /\ run.input[j].image_url = run.input[i].image_url
           /\ run.outcomes[j] = "ok")

\* C21: for every candidate list and every pattern of fetch or verification
\* failures, enrich returns a list of the same length and order as its input;
\* a candidate without an image reference, with image bytes already present,
\* or whose fetch fails is returned unchanged, and a candidate whose fetch
\* succeeds differs from the input only in its image bytes and has_image = TRUE.
C21_EnrichKeepsCandidates ==
    (kind = "enricher" /\ pc = "called") =>
        /\ Len(run.results) = Len(run.input)
        /\ \A i \in 1..Len(run.input) :
             \E in \in {run.input[i]} : \E out \in {run.results[i]} :
               /\ ~FetchWanted(in) => out = in
               /\ FetchWanted(in) =>
                    \/ out = in
                    \/ out = [in EXCEPT !.image_base64 = ImageOf(in.image_url),
                                        !.has_image = TRUE]
               /\ (FetchWanted(in) /\ run.outcomes[i] = "ok") => out # in
               /\ (FetchWanted(in) /\ run.outcomes[i] = "fail" /\ NotCachedBefore(i)) =>
                    out = in

\* a call in which the first download fails and the second succeeds
C21_Witness ==
    /\ kind = "enricher"
    /\ pc = "called"
    /\ Len(run.input) = 2
    /\ FetchWanted(run.input[1])
    /\ FetchWanted(run.input[2])
    /\ run.outcomes = <<"fail", "ok">>
    /\ run.results[1] = run.input[1]
    /\ run.results[2].image_base64 = ImageOf(run.input[2].image_url)
    /\ run.results[2] # run.input[2]


---------------------------------------------------------------------------
\* SpecNeedsRag: needs_rag on transformed queries

\* values transform_query returns: the sentinel, a message passed through or
\* prefixed, a cleaned LLM text; with the spellings an LLM gives the sentinel
TransformedQueries ==
    {before \o core \o after :
        before \in {"", DocPrefix, "o manual diz "},
        core \in {NotApplicable, "not applicable", "NOT APPLICABLE", "Not  applicable",
                  "Not applicable to zep", "o que e zep?", "precos do zep", "hello"},
        after \in {"", ".", "?", " no manual", "!"}}

NeedsRagRun(arg, result) == [arg |-> arg, result |-> result]

InitNeedsRag ==
    /\ RerankOff
    /\ kind = "needs_rag"
    /\ pc = "ready"
    /\ chat_history = <<>>
    /\ transformation_cache = <<>>
    /\ image_cache = <<>>
    /\ max_cache_size = DefaultCacheSizes
    /\ request = NoRequest
    /\ prior = 0
    /\ asks = 0
    /\ run \in {NeedsRagRun(t, FALSE) : t \in TransformedQueries}
    /\ calls = NoCalls
    /\ zep = NoZep

\* QueryTransformer.needs_rag(transformed_query)
NeedsRagCall ==
    /\ kind = "needs_rag"
    /\ pc = "ready"
    /\ run' = NeedsRagRun(run.arg, NeedsRag(run.arg))
    /\ pc' = "called"
    /\ UNCHANGED <<kind, prior, max_cache_size, request, chat_history, transformation_cache,
                   image_cache, asks, calls, zep>>
    /\ UNCHANGED vars_rr

NextNeedsRag == NeedsRagCall

SpecNeedsRag == InitNeedsRag /\ [][NextNeedsRag]_vars

\* C22: for every transformed query t, needs_rag(t) is true exactly when t,
\* compared case-insensitively, is not equal to the "not applicable" sentinel.
C22_NeedsRagIffNotSentinel ==
    (kind = "needs_rag" /\ pc = "called") =>
        (run.result <=> Lower(run.arg) # Lower(NotApplicable))


---------------------------------------------------------------------------
\* Order of the memory operations of one exchange

\* the positions of ask between the first and the second is_zep_available()
AfterMemoryFlow ==
    {"classify", "embed", "retrieve", "enrich", "rerank", "verify", "synthesize",
     "respond", "zep_add_assistant"}

\* a step that appends to the session memory is the append of the user
\* message, made after the context was read once and before the retrieval, or
\* the append of the assistant reply, made after the reply exists
MemoryStepInOrder ==
    zep'.memory # zep.memory =>
        \/ /\ pc = "zep_add_user"
           /\ zep'.memory = Append(zep.memory, "user")
           /\ calls.zep_context = 1
           /\ [calls EXCEPT !.zep_context = 0] = NoCalls
           /\ run.tq = "" /\ run.response = ""
        \/ /\ pc = "zep_add_assistant"
           /\ zep'.memory = Append(zep.memory, "assistant")
           /\ calls.zep_context <= 1
           /\ run.response # ""
           /\ chat_history[Len(chat_history)] = Msg("assistant", run.response)

\* C23: in every ask with a user id, a session id and an available memory
\* service, the session context is read exactly once per exchange and before
\* the user message of that exchange is appended to session memory; the user
\* message is appended before retrieval starts and the assistant reply is
\* appended only after the answer has been produced.
C23_MemoryFlowInOrder ==
    /\ [](calls.zep_context <= 1)
    /\ []((kind = "agent" /\ zep.ids /\ zep.client = "ready" /\ pc \in AfterMemoryFlow) =>
              calls.zep_context = 1)
    /\ [][MemoryStepInOrder]_vars

\* an exchange that read the context, stored the user message, searched and
\* stored the reply
C23_Witness ==
    /\ kind = "agent"
    /\ pc = "done"
    /\ calls.zep_context = 1
    /\ calls.vector = 1
    /\ zep.memory = <<"user", "assistant">>
    /\ run.response # ""


---------------------------------------------------------------------------
\* Indices of the rerank response

\* the lines of the response that start with the indices marker
IndicesLines ==
    {j \in 1..Len(rr_llm.lines) : StartsWith(Lower(Strip(rr_llm.lines[j])), IndicesMarker)}

\* the integers the LLM wrote on the indices line j
IntegersWritten(j) ==
    CHOOSE l \in NumLists \cup NegativeLists : IndicesLine(l) = rr_llm.lines[j]

\* C24: for every LLM rerank response and every candidate list (after the
\* cap), every integer on the indices line that lies outside
\* [1, candidateCount] is discarded, and each remaining 1-based index n selects
\* the candidate at 0-based position n-1: indices[i] is in [0, candidateCount)
\* and selected_docs[i] is candidates[indices[i]] for every i.
C24_IndicesMapBack ==
    (RerankLLMCalled /\ rr_llm.kind = "text") =>
        /\ Len(rr_out.indices) = Len(rr_out.selected_docs)
        /\ \A i \in 1..Len(rr_out.indices) :
             /\ rr_out.indices[i] \in 0..(Len(RerankCandidates) - 1)
             /\ rr_out.selected_docs[i] = RerankCandidates[rr_out.indices[i] + 1]
        /\ \A j \in IndicesLines :
             (/\ IndicesLines = {j}
              /\ \E l \in NumLists \cup NegativeLists : IndicesLine(l) = rr_llm.lines[j]) =>
                \E kept \in {SelectInRange(IntegersWritten(j), Len(RerankCandidates))} :
                    kept # <<>> => rr_out.indices = [i \in 1..Len(kept) |-> kept[i] - 1]


RECURSIVE KeepFirstMarkers(_, _, _)
\* the response without the lines that repeat a marker already seen
KeepFirstMarkers(lines, seen_indices, seen_just) ==
    IF lines = <<>> THEN <<>>
    ELSE CHOOSE r \in
           {IF StartsWith(Lower(line), IndicesMarker)
            THEN (IF seen_indices THEN <<>> ELSE <<Head(lines)>>)
                 \o KeepFirstMarkers(Tail(lines), TRUE, seen_just)
            ELSE IF StartsWith(line, JustificationMarker)
            THEN (IF seen_just THEN <<>> ELSE <<Head(lines)>>)
                 \o KeepFirstMarkers(Tail(lines), seen_indices, TRUE)
            ELSE <<Head(lines)>> \o KeepFirstMarkers(Tail(lines), seen_indices, seen_just)
            : line \in {Strip(Head(lines))}} : TRUE

\* C25: when the rerank LLM response contains several lines starting with the
\* indices marker, or several lines starting with the justification marker,
\* the selection is taken from the first indices line and the justification
\* from the first justification line; later such lines do not change the
\* decision.
C25_FirstMarkerLineWins ==
    (RerankLLMCalled /\ rr_llm.kind = "text") =>
        \E first \in {ParseRerankResponse(KeepFirstMarkers(rr_llm.lines, FALSE, FALSE),
                                          RerankCandidates)} :
            /\ rr_out.selected_docs = first.selected_docs
            /\ rr_out.indices = first.indices
            /\ rr_out.justification = first.justification


---------------------------------------------------------------------------
\* SpecClassify: transform_query of a new transformer on drawn histories

ClassifyMessages ==
    {"oi", "Ola", "oi zep", "bom dia a todos", "obrigado", "obrigado pelo paper",
     "zep", "O que e ZEP?", "como funciona", "e isso?", "fale mais sobre isso",
     "fale mais sobre aquilo, obrigado", "quero saber mais", "e os precos",
     "graphiti", "Graphiti paper"}

\* an assistant turn about the document, and one that is not
DocumentTurn == Msg("assistant", FirstAnswer)
PlainTurn == Msg("assistant", "Posso ajudar em algo mais")

\* the turns before the message: none, one exchange with and without a
\* document answer, and a document answer seven turns back
ClassifyHistories ==
    {<<>>,
     <<Msg("user", FirstQuestion), DocumentTurn>>,
     <<Msg("user", "e os precos"), PlainTurn>>,
     <<Msg("user", FirstQuestion), DocumentTurn,
       Msg("user", "e os precos"), PlainTurn, Msg("user", "e os precos"), PlainTurn,
       Msg("user", "e os precos"), PlainTurn>>}

ClassifyRun(message, h, classification, result, llm_calls) ==
    [message |-> message, h |-> h, classification |-> classification,
     result |-> result, llm_calls |-> llm_calls]

InitClassify ==
    /\ RerankOff
    /\ kind = "classifier"
    /\ pc = "ready"
    /\ chat_history = <<>>
    /\ transformation_cache = <<>>
    /\ image_cache = <<>>
    /\ max_cache_size = DefaultCacheSizes
    /\ request = NoRequest
    /\ prior = 0
    /\ asks = 0
    /\ run \in {ClassifyRun(m, Append(before, Msg("user", m)), "", "", 0) :
                   m \in ClassifyMessages, before \in ClassifyHistories}
    /\ calls = NoCalls
    /\ zep = NoZep

\* QueryTransformer.transform_query(chat_history) with an empty cache
ClassifyCall ==
    /\ kind = "classifier"
    /\ pc = "ready"
    /\ \E llm \in TransformLLMOutcomes :
         \E t \in {TransformQuery(run.h, transformation_cache, llm, max_cache_size.transform)} :
           /\ run' = ClassifyRun(run.message, run.h,
                                 DeterministicClassification(run.message, run.h),
                                 t.result, t.llm_calls)
           /\ transformation_cache' = t.cache
    /\ pc' = "called"
    /\ UNCHANGED <<kind, prior, max_cache_size, request, chat_history, image_cache, asks,
                   calls, zep>>
    /\ UNCHANGED vars_rr

NextClassify == ClassifyCall

SpecClassify == InitClassify /\ [][NextClassify]_vars

\* the rules of the classifier in the order of the specification, each with
\* its condition on the message and its output
ClassifierRules(message, h) ==
    LET m == Strip(Lower(message)) IN
    <<[name |-> "greeting", applies |-> IsSimpleGreeting(m), output |-> NotApplicable],
      [name |-> "thanks", applies |-> IsSimpleThanks(m), output |-> NotApplicable],
      [name |-> "term", applies |-> MentionsDocumentDirectly(m), output |-> message],
      [name |-> "inquiry", applies |-> IsGeneralDocumentInquiry(m),
       output |-> DocPrefix \o message],
      [name |-> "pronoun", applies |-> HasContextualReferences(m) /\ HasDocumentContext(h),
       output |-> DocPrefix \o message],
      [name |-> "keyword", applies |-> HasInquiryPattern(m), output |-> DocPrefix \o message]>>

\* the names of the rules that match, in order
MatchingRules(message, h) ==
    LET rules == ClassifierRules(message, h)
        F[i \in 0..Len(rules)] ==
            IF i = 0 THEN <<>>
            ELSE IF rules[i].applies THEN Append(F[i - 1], i) ELSE F[i - 1]
    IN  F[Len(rules)]

\* C26: for every last user message and history, the deterministic
\* classifier's output is that of the first matching rule in the order: short
\* greeting, short thanks, domain term (message unchanged), inquiry pattern
\* (prefix), contextual pronoun with a document-related assistant turn among
\* the last 6 (prefix), inquiry keyword (prefix); the LLM is called only when
\* no rule matches.
C26_FirstMatchingRule ==
    (kind = "classifier" /\ pc = "called") =>
        \E matching \in {MatchingRules(run.message, run.h)} :
            /\ matching # <<>> =>
                 /\ run.classification
                        = ClassifierRules(run.message, run.h)[matching[1]].output
                 /\ run.result = run.classification
                 /\ run.llm_calls = 0
            /\ matching = <<>> => run.classification = "NEEDS_AI"
            /\ run.llm_calls > 0 => matching = <<>>

\* a greeting that names a document term, and a pronoun resolved by the history
C26_Witness ==
    /\ kind = "classifier"
    /\ pc = "called"
    /\ \/ /\ run.message = "oi zep"
          /\ MatchingRules(run.message, run.h) = <<1, 3>>
          /\ run.result = NotApplicable
       \/ /\ run.message = "fale mais sobre isso"
          /\ MatchingRules(run.message, run.h) = <<5>>
          /\ run.result = DocPrefix \o run.message


---------------------------------------------------------------------------
\* Greetings by tokens

RECURSIVE SplitWords(_, _, _)
\* s.split(): the words of s from position i on, cur being the word read so far
SplitWords(s, i, cur) ==
    IF i > Len(s) THEN (IF cur = "" THEN <<>> ELSE <<cur>>)
    ELSE IF IsSpace(SubSeq(s, i, i))
    THEN (IF cur = "" THEN <<>> ELSE <<cur>>) \o SplitWords(s, i + 1, "")
    ELSE SplitWords(s, i + 1, cur \o SubSeq(s, i, i))

\* the message has at most 2 tokens and they match the greeting lexicon: a
\* token is an entry, or the tokens together are one
GreetingByTokens(message) ==
    \E words \in {SplitWords(Strip(Lower(message)), 1, "")} :
        /\ Len(words) <= 2
        /\ \/ \E i \in 1..Len(words) : words[i] \in greeting_patterns
           \/ Join(words, " ") \in greeting_patterns

\* C27: a message is classified as a short greeting (and answered with the
\* canned greeting instead of retrieval) only if it has at most 2 tokens and
\* its tokens match the greeting lexicon; a message of at most 2 tokens none
\* of which is a greeting-lexicon entry (for instance one that names a domain
\* term) is not classified as a greeting.
C27_GreetingOnlyByTokens ==
    (/\ kind = "classifier"
     /\ pc = "called"
     /\ ClassifierRules(run.message, run.h)[1].applies
     /\ run.result = NotApplicable) => GreetingByTokens(run.message)


---------------------------------------------------------------------------
\* Pairs of the session memory

\* C28: in the session memory, every assistant message appended by ask is
\* immediately preceded by the user message of the same exchange, in every
\* execution, including those in which a memory operation of the first phase
\* (ensure user, read context, append user message) fails while the later
\* append of the assistant reply succeeds.
C28_AssistantFollowsUser ==
    (kind = "agent" /\ zep.ids) =>
        \A i \in 1..Len(zep.memory) :
            zep.memory[i] = "assistant" => (i > 1 /\ zep.memory[i - 1] = "user")


---------------------------------------------------------------------------
\* Transparency of the transformation cache

\* what a transformer with an empty cache returns for the history, for each
\* answer of the LLM
FreshTransformations(h) ==
    {TransformQuery(h, <<>>, llm, MaxCacheSize).result : llm \in TransformLLMOutcomes}

\* C29: the query-transform cache is semantically transparent: each
\* transform_query call returns the value that a transformer with an empty
\* cache (given the same LLM answers) would return for that call's history; a
\* cache hit never returns the transformation of a different user message
\* (one sharing the first 50 characters, or differing in letter case) or of a
\* history with a different document context.
C29_CacheTransparent ==
    (kind = "transformer" /\ pc = "called") =>
        run.result \in FreshTransformations(chat_history)


---------------------------------------------------------------------------
\* Provenance of the heuristic selection

\* C30: for every candidate list, similarity threshold and max_selected, the
\* decision of SimpleReranker has consistent provenance: indices[i] is the
\* 0-based position in the input candidate list of selected_docs[i] for every
\* i, also when candidates below the threshold precede the selected ones.
C30_SimpleIndicesPointAtSelection ==
    rr_pc = "simple" =>
        /\ Len(rr_out.indices) = Len(rr_out.selected_docs)
        /\ \A i \in 1..Len(rr_out.selected_docs) :
             /\ rr_out.indices[i] \in 0..(Len(rr_in.search_results) - 1)
             /\ rr_in.search_results[rr_out.indices[i] + 1] = rr_out.selected_docs[i]

====
